---- MODULE Spec2Model ----
(***************************************************************************)
(* Model of the automata engine of 4awmy/TOC-project                       *)
(* (src/automata_logic.py): epsilon closure, subset construction and the   *)
(* trace-producing Moore minimizer.                                        *)
(*                                                                         *)
(* Strings (state names, symbols, labels) are sequences of character       *)
(* codes, so that Python's string ordering and str() are computed and not  *)
(* assumed.  A dict lookup that misses is the value None.                  *)
(***************************************************************************)
EXTENDS Integers, Sequences, FiniteSets, TLC

VARIABLES
    pc,          \* where the call in progress stands
    dfa,         \* minimize_dfa_with_steps: the argument dfa_obj
    partitions,  \* minimize_dfa_with_steps: the local partitions
    steps,       \* minimize_dfa_with_steps: the trace
    k,           \* minimize_dfa_with_steps: the round counter
    result,      \* the automaton the call returned
    mapping,     \* the mapping the call returned
    run,         \* which call of its caller this is
    first,       \* what the caller's first call returned
    nfa,         \* _get_epsilon_closure, nfa_to_dfa: the argument nfa_obj
    seeds,       \* _get_epsilon_closure: the argument states
    closure,     \* _get_epsilon_closure: the local closure
    stack,       \* _get_epsilon_closure: the local stack
    dfa_states,  \* nfa_to_dfa: the local dfa_states
    dfa_transitions,     \* nfa_to_dfa: the local dfa_transitions
    dfa_final_states,    \* nfa_to_dfa: the local dfa_final_states
    unprocessed_states,  \* nfa_to_dfa: the local unprocessed_states
    call,        \* the function the call in progress is a call of
    df,          \* get_dfa_table: the local df, as line 299 built it
    visited,     \* get_dfa_table: the local visited
    queue,       \* get_dfa_table: the local queue
    bfs_order,   \* get_dfa_table: the local bfs_order
    session,     \* app.py: st.session_state, the three keys of the studio tab
    error,       \* app.py: the exception st.error reported in the last script run
    request,     \* app.py: the button pressed in the last script run, its inputs
    available_models,    \* _resolve_model_name: what list(genai.list_models()) gives
    scanned,             \* _resolve_model_name: how many of them the loop has seen
    available_names,     \* _resolve_model_name: the local available_names
    raw_names,           \* _resolve_model_name: the local raw_names
    processor,   \* logic.py: the LanguageProcessor, its fields and its ai.ready
    invoked,     \* logic.py, main.py: the function called last, its argument
    outcome,     \* logic.py, main.py: what that call returned or printed
    calls        \* logic.py: the calls it made to the AI handler and to re

minVars == <<dfa, partitions, steps, k>>
closureVars == <<seeds, closure, stack>>
subsetVars == <<dfa_states, dfa_transitions, dfa_final_states, unprocessed_states>>

tableVars == <<df, visited, queue, bfs_order>>

appVars == <<session, error, request>>

resolveVars == <<available_models, scanned, available_names, raw_names>>

langVars == <<processor, invoked, outcome, calls>>

restVars == <<call, tableVars, appVars, resolveVars, langVars>>

vars == <<pc, result, mapping, run, first, nfa, minVars, closureVars, subsetVars,
          restVars>>

(***************************************************************************)
(* Strings                                                                 *)
(***************************************************************************)

\* The value of dict.get(key) for an absent key.
None == <<0>>

\* Python's < on str: lexicographic by code point, a proper prefix first.
RECURSIVE StrLess(_, _)
StrLess(a, b) ==
    IF a = <<>> THEN b # <<>>
    ELSE IF b = <<>> THEN FALSE
    ELSE IF Head(a) # Head(b) THEN Head(a) < Head(b)
    ELSE StrLess(Tail(a), Tail(b))

\* str(n) of a non-negative int: its decimal digits, code 48 being "0".
RECURSIVE IntStr(_)
IntStr(n) ==
    IF n < 10 THEN <<48 + n>> ELSE IntStr(n \div 10) \o <<48 + (n % 10)>>

\* str(x) of a state: the states of the model are str values, and str of a
\* str is that str.
str(x) == x

\* min(str(x) for x in s)
MinStr(s) ==
    CHOOSE m \in {str(x) : x \in s} :
        \A o \in {str(x) : x \in s} : o = m \/ StrLess(m, o)

\* A list in descending order.
RECURSIVE SortedListDescending(_)
SortedListDescending(S) ==
    IF S = {} THEN <<>>
    ELSE LET m == CHOOSE x \in S : \A y \in S : y = x \/ StrLess(y, x)
         IN  <<m>> \o SortedListDescending(S \ {m})

\* sorted(list(symbols)) for a set of str
RECURSIVE SortedList(_)
SortedList(S) ==
    IF S = {} THEN <<>>
    ELSE LET m == CHOOSE x \in S : \A y \in S : y = x \/ StrLess(x, y)
         IN  <<m>> \o SortedList(S \ {m})

\* Labels that start again at A after Z.
GenerateLabelWraps(index) == <<65 + (index % 26)>>

\* AutomataHandler._generate_label: A..Z, then A1, B1, ...
generate_label(index) ==
    IF index < 26 THEN <<65 + index>>
    ELSE <<65 + (index % 26)>> \o IntStr(index \div 26)

(***************************************************************************)
(* Automata                                                                *)
(***************************************************************************)

\* The strings "0" and "1": the alphabet of an automaton of the model is a
\* subset of these.
Symbols == {<<48>>, <<49>>}

\* The strings "8", "9", "10", "11": state names whose order as strings ("10"
\* first) is not their order as numbers.
StateNames == <<IntStr(8), IntStr(9), IntStr(10), IntStr(11)>>

\* The first n state names.
NameSet(n) == {StateNames[i] : i \in 1..n}

\* The sets of at most n edges, out of the edges all.
RECURSIVE EdgeSets(_, _)
EdgeSets(all, n) ==
    IF n = 0 THEN {{}}
    ELSE LET less == EdgeSets(all, n - 1)
         IN  less \cup {E \cup {e} : E \in less, e \in all}

\* dict.get(key): the entry, or None when the key is absent.  A transition
\* dict is a function that maps the absent symbols to None.
Get(d, key) == IF key \in DOMAIN d THEN d[key] ELSE None

\* AutomataHandler.create_dfa with automata-lib's validation: the initial state
\* and the final states are states, every state has a transition dict, every
\* target is a state.  Partial DFAs (allow_partial) are included.
DFAs(Q, Sigma) ==
    [states : {Q}, input_symbols : {Sigma},
     transitions : [Q -> [Sigma -> Q \cup {None}]],
     initial_state : Q, final_states : SUBSET Q]

\* The DFA with the given transitions, each edge <<state, symbol, target>>.
DfaOf(Q, Sigma, edges, initial_state, final_states) ==
    [states |-> Q, input_symbols |-> Sigma,
     transitions |->
        [q \in Q |-> [a \in Sigma |->
            IF \E e \in edges : e[1] = q /\ e[2] = a
            THEN (CHOOSE e \in edges : e[1] = q /\ e[2] = a)[3]
            ELSE None]],
     initial_state |-> initial_state, final_states |-> final_states]

\* The DFAs handed to the minimizer: every DFA, total or partial, of at most
\* three states over a subset of {0, 1}, and the DFAs of four states over
\* {0, 1} with at most MaxDfaEdges transitions.
MaxDfaEdges == 1

DenseDfas ==
    UNION {DFAs(NameSet(n), Sigma) : n \in 1..3, Sigma \in SUBSET Symbols}

SparseDfas ==
    {DfaOf(NameSet(4), Symbols, edges, initial_state, final_states) :
        edges \in {E \in EdgeSets(NameSet(4) \X Symbols \X NameSet(4), MaxDfaEdges) :
                      \A e, f \in E : (e[1] = f[1] /\ e[2] = f[2]) => e = f},
        initial_state \in NameSet(4),
        final_states \in SUBSET NameSet(4)}

DfaInputs == DenseDfas \cup SparseDfas

(***************************************************************************)
(* minimize_dfa_with_steps                                                 *)
(***************************************************************************)

\* Lines 189-195: the index of the first group holding target, or -2.
RECURSIVE FindGroup(_, _, _)
FindGroup(parts, target, idx) ==
    IF idx >= Len(parts) THEN -2
    ELSE IF target \in parts[idx + 1] THEN idx
    ELSE FindGroup(parts, target, idx + 1)

\* A signature without the sentinel: a missing transition counts as group 0.
SignatureNoSentinel(d, parts, input_symbols, state) ==
    [i \in 1..Len(input_symbols) |->
        LET target == Get(d.transitions[state], input_symbols[i])
        IN  IF target = None THEN 0 ELSE FindGroup(parts, target, 0)]

\* Lines 182-196: the signature of a state against the current partition.
Signature(d, parts, input_symbols, state) ==
    [i \in 1..Len(input_symbols) |->
        LET target == Get(d.transitions[state], input_symbols[i])
        IN  IF target = None THEN -1 ELSE FindGroup(parts, target, 0)]

\* Lines 180-199: the values of sub_groups for one group.
SubGroups(d, parts, input_symbols, group) ==
    {{s \in group : Signature(d, parts, input_symbols, s)
                      = Signature(d, parts, input_symbols, t)} : t \in group}

\* A loop that also leaves the groups of two states as they are.
GroupOutputPairsKept(d, parts, input_symbols, group) ==
    IF Cardinality(group) <= 2 THEN {group}
    ELSE SubGroups(d, parts, input_symbols, group)

\* Lines 174-202: what one group appends to new_partitions.
GroupOutput(d, parts, input_symbols, group) ==
    IF Cardinality(group) <= 1 THEN {group}
    ELSE SubGroups(d, parts, input_symbols, group)

\* The lists new_partitions can be before it is sorted: the groups are visited
\* in list order, the sub-groups of one group come in the iteration order of a
\* Python set, which is any order.
RECURSIVE Unsorted(_, _, _, _)
Unsorted(d, parts, input_symbols, i) ==
    IF i > Len(parts) THEN {<<>>}
    ELSE LET out == GroupOutput(d, parts, input_symbols, parts[i])
             n == Cardinality(out)
             orders == {q \in [1..n -> out] : \A a, b \in 1..n : a # b => q[a] # q[b]}
         IN  {q \o rest : q \in orders,
                          rest \in Unsorted(d, parts, input_symbols, i + 1)}

\* A sort that leaves the list as it is.
Unordered(list) == list

\* list.sort(key=lambda s: min(str(x) for x in s)): a stable sort.
RECURSIVE SortByMinStr(_)
Insert(sorted, g) ==
    LET after == {i \in 1..Len(sorted) : ~StrLess(MinStr(g), MinStr(sorted[i]))}
        n == Cardinality(after)
    IN  SubSeq(sorted, 1, n) \o <<g>> \o SubSeq(sorted, n + 1, Len(sorted))
SortByMinStr(list) ==
    IF list = <<>> THEN <<>>
    ELSE Insert(SortByMinStr(SubSeq(list, 1, Len(list) - 1)), list[Len(list)])

\* The value None where the code expects a group.  No group is empty, and the
\* code's test "if target_partition:" takes an empty group for None as well.
NoPartition == {}

\* Lines 223-241: the final groups in label order, the group of the initial
\* state first (None when no group holds it), the others sorted.
StartPartition(d, parts) ==
    LET holds == {i \in 1..Len(parts) : d.initial_state \in parts[i]}
    IN  IF holds = {} THEN NoPartition
        ELSE parts[CHOOSE i \in holds : \A j \in holds : i <= j]

\* Label order that is the sorted order, the start group not put first.
OrderedPartitionsSorted(d, parts) == SortByMinStr(parts)

OrderedPartitions(d, parts) ==
    LET start_partition == StartPartition(d, parts)
        remaining == SelectSeq(parts, LAMBDA p : p # start_partition)
    IN  <<start_partition>> \o SortByMinStr(remaining)

\* Lines 239-241: mapping, from group to label.
LabelMapping(ordered) ==
    [p \in {ordered[i] : i \in 1..Len(ordered)} |->
        generate_label((CHOOSE i \in 1..Len(ordered) : ordered[i] = p) - 1)]

\* Lines 250-254: get_partition.
GetPartition(parts, s) ==
    LET idx == FindGroup(parts, s, 0)
    IN  IF idx < 0 THEN NoPartition ELSE parts[idx + 1]

\* Lines 264-272: the transition dict of one group, read off its member rep.
\* A symbol the dict has no entry for maps to None.
GroupRow(d, parts, Sigma, map, rep) ==
    [a \in Sigma |->
        LET target == Get(d.transitions[rep], a)
        IN  IF target = None THEN None
            ELSE IF GetPartition(parts, target) = NoPartition THEN None
            ELSE map[GetPartition(parts, target)]]

\* Lines 243-281: the minimized DFA, rep[p] being the member next(iter(p))
\* picks in group p.
BuildDFA(d, parts, input_symbols, ordered, map, rep) ==
    LET groups == {ordered[i] : i \in 1..Len(ordered)}
        Sigma == {input_symbols[i] : i \in 1..Len(input_symbols)}
    IN  [states |-> {map[p] : p \in groups},
         input_symbols |-> Sigma,
         transitions |->
            [q \in {map[p] : p \in groups} |->
                GroupRow(d, parts, Sigma, map,
                         rep[CHOOSE p \in groups : map[p] = q])],
         initial_state |-> map[ordered[1]],
         final_states |-> {map[p] : p \in {g \in groups : g \cap d.final_states # {}}}]

\* The value of a variable that holds nothing yet.
Nothing == <<>>

\* A round 0 that does not separate the final states.
InitialPartitionsUnsplit(d) == <<d.states>>

\* Lines 157-169: the partition of round 0 and the first line of the trace.
InitialPartitions(d) ==
    LET non_final == d.states \ d.final_states
    IN  (IF non_final # {} THEN <<non_final>> ELSE <<>>)
        \o (IF d.final_states # {} THEN <<d.final_states>> ELSE <<>>)

MinStart ==
    /\ pc = "start"
    /\ partitions' = InitialPartitions(dfa)
    /\ steps' = <<[k |-> 0, partitions |-> InitialPartitions(dfa)]>>
    /\ k' = 0
    /\ pc' = "loop"
    /\ UNCHANGED <<restVars, dfa, result, mapping, run, first, nfa, closureVars, subsetVars>>

\* A test that compares the numbers of groups only.
LoopStopsByCount(new_partitions, old_partitions) ==
    Len(new_partitions) = Len(old_partitions)

\* Line 208: the test that ends the loop, an equality of lists.
LoopStops(new_partitions, old_partitions) == new_partitions = old_partitions

\* Lines 172-210: one round of the refinement loop.  A line of the trace,
\* f"Equivalence {k}: {new_partitions}", is the pair it prints.
Round ==
    /\ pc = "loop"
    /\ \E unsorted \in Unsorted(dfa, partitions, SortedList(dfa.input_symbols), 1) :
          LET new_partitions == SortByMinStr(unsorted)
          IN  /\ k' = k + 1
              /\ steps' = Append(steps, [k |-> k + 1, partitions |-> new_partitions])
              /\ IF LoopStops(new_partitions, partitions)
                 THEN pc' = "build" /\ UNCHANGED partitions
                 ELSE pc' = "loop" /\ partitions' = new_partitions
    /\ UNCHANGED <<restVars, dfa, result, mapping, run, first, nfa, closureVars, subsetVars>>

\* Line 264: rep = next(iter(p)) for every group; a set has no documented
\* iteration order, so every choice of one member per group is possible.
RECURSIVE Representatives(_)
Representatives(groups) ==
    IF groups = {} THEN {<<>>}
    ELSE LET p == CHOOSE g \in groups : TRUE
         IN  {[g \in groups |-> IF g = p THEN x ELSE r[g]] :
                 x \in p, r \in Representatives(groups \ {p})}

\* Lines 223-283: labels and the minimized DFA.
Build ==
    /\ pc = "build"
    /\ LET input_symbols == SortedList(dfa.input_symbols)
           ordered == OrderedPartitions(dfa, partitions)
           map == LabelMapping(ordered)
       IN  /\ mapping' = map
           /\ \E rep \in Representatives(DOMAIN map) :
                 result' = BuildDFA(dfa, partitions, input_symbols, ordered, map, rep)
    /\ pc' = "done"
    /\ UNCHANGED <<restVars, dfa, partitions, steps, k, run, first, nfa, closureVars, subsetVars>>

\* What a finished call returned: (minimized_dfa, steps, mapping).
Returned == [result |-> result, steps |-> steps, mapping |-> mapping]

\* A caller that minimizes the same DFA a second time.
CallAgain ==
    /\ pc = "done" /\ run = "first"
    /\ run' = "repeat"
    /\ first' = Returned
    /\ pc' = "start"
    /\ partitions' = Nothing /\ steps' = Nothing /\ k' = 0
    /\ result' = Nothing /\ mapping' = Nothing
    /\ UNCHANGED <<restVars, dfa, nfa, closureVars, subsetVars>>

\* A caller that minimizes the DFA its first call returned.
CallOnResult ==
    /\ pc = "done" /\ run = "first"
    /\ run' = "reminimize"
    /\ first' = Returned
    /\ dfa' = result
    /\ pc' = "start"
    /\ partitions' = Nothing /\ steps' = Nothing /\ k' = 0
    /\ result' = Nothing /\ mapping' = Nothing
    /\ UNCHANGED <<restVars, nfa, closureVars, subsetVars>>

\* The variables of the other functions hold nothing.
NoMin == dfa = Nothing /\ partitions = Nothing /\ steps = Nothing /\ k = 0

NoClosure == seeds = Nothing /\ closure = Nothing /\ stack = Nothing

NoSubset ==
    /\ dfa_states = Nothing /\ dfa_transitions = Nothing
    /\ dfa_final_states = Nothing /\ unprocessed_states = Nothing

NoTable ==
    df = Nothing /\ visited = Nothing /\ queue = Nothing /\ bfs_order = Nothing

NoApp == session = Nothing /\ error = Nothing /\ request = Nothing

NoResolve ==
    /\ available_models = Nothing /\ scanned = 0
    /\ available_names = Nothing /\ raw_names = Nothing

\* The variables of the rest of the program hold nothing.
NoLang ==
    processor = Nothing /\ invoked = Nothing /\ outcome = Nothing /\ calls = Nothing

NoRest == NoTable /\ NoApp /\ NoResolve /\ NoLang

MinInit(inputs) ==
    /\ pc = "start"
    /\ call = "minimize_dfa_with_steps"
    /\ dfa \in inputs
    /\ partitions = Nothing /\ steps = Nothing /\ k = 0
    /\ result = Nothing /\ mapping = Nothing
    /\ run = "first" /\ first = Nothing
    /\ nfa = Nothing /\ NoClosure /\ NoSubset /\ NoRest

\* One call of minimize_dfa_with_steps on any DFA of the bounds.
Init == MinInit(DfaInputs)

Next == MinStart \/ Round \/ Build

Spec == Init /\ [][Next]_vars

\* The (state, symbol) pairs a DFA has no transition for.
Missing(d) ==
    {<<q, a>> \in d.states \X d.input_symbols : Get(d.transitions[q], a) = None}

\* Two calls in a row: the second on the same DFA, or on the DFA the first
\* returned.  The DFAs are those of DfaInputs, without the partial DFAs of
\* three states over both symbols.
TwiceInputs ==
    {d \in DfaInputs :
        \/ Missing(d) = {}
        \/ Cardinality(d.states) # 3
        \/ d.input_symbols # Symbols}

InitTwice == MinInit(TwiceInputs)

NextTwice == MinStart \/ Round \/ Build \/ CallAgain \/ CallOnResult

SpecTwice == InitTwice /\ [][NextTwice]_vars

(***************************************************************************)
(* Languages                                                               *)
(***************************************************************************)

\* The words the claims about single words are checked on.
MaxWordLen == 3

Words(Sigma) == UNION {[1..n -> Sigma] : n \in 0..MaxWordLen}

\* One step of a DFA; None is the implicit sink a missing transition leads to.
DfaStep(d, q, a) == IF q = None THEN None ELSE Get(d.transitions[q], a)

RECURSIVE DfaRun(_, _, _)
DfaRun(d, q, w) ==
    IF w = <<>> THEN q ELSE DfaRun(d, DfaStep(d, q, Head(w)), Tail(w))

DfaAccepts(d, w) ==
    LET q == DfaRun(d, d.initial_state, w)
    IN  q # None /\ q \in d.final_states

\* The pairs of states two DFAs are in after the same word, for every word.
RECURSIVE PairsFrom(_, _, _)
PairsFrom(d1, d2, seen) ==
    LET more == {<<DfaStep(d1, pq[1], a), DfaStep(d2, pq[2], a)>> :
                    pq \in seen, a \in d1.input_symbols}
    IN  IF more \subseteq seen THEN seen ELSE PairsFrom(d1, d2, seen \cup more)

\* Two DFAs over one alphabet accept the same words, of any length.
SameLanguage(d1, d2) ==
    /\ d1.input_symbols = d2.input_symbols
    /\ \A pq \in PairsFrom(d1, d2, {<<d1.initial_state, d2.initial_state>>}) :
          (pq[1] # None /\ pq[1] \in d1.final_states)
              <=> (pq[2] # None /\ pq[2] \in d2.final_states)

\* C2: the DFA minimize_dfa_with_steps returns accepts exactly the words its
\* argument accepts, a missing transition rejecting, and has no more states.
C2_LanguagePreserved ==
    pc = "done" =>
        /\ SameLanguage(dfa, result)
        /\ \A w \in Words(dfa.input_symbols) : DfaAccepts(dfa, w) <=> DfaAccepts(result, w)
        /\ Cardinality(result.states) <= Cardinality(dfa.states)

\* C2 happens: a partial DFA that accepts some word and rejects another was
\* minimized to fewer states.
C2_Witness ==
    /\ pc = "done"
    /\ Missing(dfa) # {}
    /\ Cardinality(result.states) < Cardinality(dfa.states)
    /\ \E w \in Words(dfa.input_symbols) : DfaAccepts(dfa, w) /\ Len(w) > 1
    /\ \E w \in Words(dfa.input_symbols) : ~DfaAccepts(dfa, w)

\* The DFAs of fewer than n states over an alphabet.
SmallerDFAs(n, Sigma) ==
    UNION {DFAs(NameSet(m), Sigma) : m \in 1..(n - 1)}

\* C3: the DFA minimize_dfa_with_steps returns is minimal: no DFA of fewer
\* states recognizes the same language.
C3_ReturnsMinimal ==
    pc = "done" =>
        \A m \in SmallerDFAs(Cardinality(result.states), result.input_symbols) :
            ~SameLanguage(m, result)

\* The bijections between two sets.
Bijections(S, T) ==
    {f \in [S -> T] : \A x, y \in S : x # y => f[x] # f[y]}

\* Two DFAs are the same up to the names of their states.
Isomorphic(d1, d2) ==
    /\ d1.input_symbols = d2.input_symbols
    /\ Cardinality(d1.states) = Cardinality(d2.states)
    /\ \E f \in Bijections(d1.states, d2.states) :
          /\ f[d1.initial_state] = d2.initial_state
          /\ {f[q] : q \in d1.final_states} = d2.final_states
          /\ \A q \in d1.states, a \in d1.input_symbols :
                LET t1 == Get(d1.transitions[q], a)
                    t2 == Get(d2.transitions[f[q]], a)
                IN  IF t1 = None THEN t2 = None ELSE t2 # None /\ t2 = f[t1]

\* C4: minimizing the DFA a first minimization returned gives a DFA of as many
\* states and the same language, the same DFA up to the names of the states.
C4_Idempotent ==
    (pc = "done" /\ run = "reminimize") =>
        /\ dfa = first.result
        /\ Cardinality(result.states) = Cardinality(first.result.states)
        /\ SameLanguage(result, first.result)
        /\ Isomorphic(first.result, result)

\* C4 happens: the first call merged states, the second call ran on its result,
\* a DFA of several states that accepts some word.
C4_Witness ==
    /\ pc = "done" /\ run = "reminimize"
    /\ \E p \in DOMAIN first.mapping : Cardinality(p) > 1
    /\ Cardinality(result.states) > 1
    /\ \E w \in Words(dfa.input_symbols) : DfaAccepts(result, w)

\* The groups of a recorded partition, as a set.
Groups(parts) == {parts[i] : i \in 1..Len(parts)}

\* C5: the loop stops at the first round whose partition is, as a set of
\* groups, the partition of the round before: no round follows it.
C5_StopsAtFirstRepeat ==
    \A i \in 1..(Len(steps) - 1) :
        Groups(steps[i + 1].partitions) = Groups(steps[i].partitions)
            => (i + 1 = Len(steps) /\ pc # "loop")

\* The groups of a list are in ascending order of their smallest member.
SortedByMinStr(parts) ==
    \A i, j \in 1..Len(parts) : i < j => StrLess(MinStr(parts[i]), MinStr(parts[j]))

\* C6: every partition of the trace, round 0 included, lists its groups in
\* ascending order of their smallest member as a string, and the next round
\* indexes the groups in the order the trace shows.
C6_TraceSorted ==
    /\ \A i \in 1..Len(steps) : SortedByMinStr(steps[i].partitions)
    /\ pc = "loop" => partitions = steps[Len(steps)].partitions

\* C7: a second call on the same DFA returns the same trace, round for round
\* and group for group, the same minimized DFA and the same mapping.
C7_Deterministic ==
    (pc = "done" /\ run = "repeat") =>
        /\ steps = first.steps
        /\ result = first.result
        /\ mapping = first.mapping

\* C7 happens: the second call is over, after rounds that split a group.
C7_Witness ==
    /\ pc = "done" /\ run = "repeat"
    /\ Len(steps) >= 3
    /\ Len(steps[2].partitions) > Len(steps[1].partitions)
    /\ Cardinality(result.states) > 2

\* The word leads the DFA over a missing transition.
NeedsMissing(d, w) == DfaRun(d, d.initial_state, w) = None

\* C8: a missing transition raises nothing.  It puts -1 in the signature,
\* which no group has as its index; a state of the minimized DFA has a
\* transition on a symbol exactly when the members of its group have one; and
\* a word that needs a missing transition is rejected.
C8_MissingTransitions ==
    /\ pc = "loop" =>
          \A q \in dfa.states :
             LET input_symbols == SortedList(dfa.input_symbols)
                 signature == Signature(dfa, partitions, input_symbols, q)
             IN  \A i \in 1..Len(input_symbols) :
                    /\ signature[i] = -1
                          <=> Get(dfa.transitions[q], input_symbols[i]) = None
                    /\ signature[i] # -1 => signature[i] \in 0..(Len(partitions) - 1)
    /\ pc = "done" =>
          /\ \A p \in DOMAIN mapping, a \in dfa.input_symbols :
                \A q \in p :
                    Get(result.transitions[mapping[p]], a) # None
                        <=> Get(dfa.transitions[q], a) # None
          /\ \A w \in Words(dfa.input_symbols) : NeedsMissing(dfa, w) => ~DfaAccepts(result, w)

\* C8 happens: a partial DFA was minimized, two of its states in one group,
\* and some word that needs a missing transition ends in a final state when the
\* word is cut before that transition.
C8_Witness ==
    /\ pc = "done"
    /\ Missing(dfa) # {}
    /\ \E p \in DOMAIN mapping : Cardinality(p) > 1
    /\ \E w \in Words(dfa.input_symbols) :
          /\ NeedsMissing(dfa, w)
          /\ Len(w) > 1
          /\ DfaAccepts(dfa, SubSeq(w, 1, Len(w) - 1))

(***************************************************************************)
(* _get_epsilon_closure                                                    *)
(***************************************************************************)

\* The empty string, the symbol of an epsilon transition.
Eps == <<>>

\* nfa_obj.transitions.get(state, {}).get(symbol, set())
Moves(n, state, symbol) ==
    IF state \notin DOMAIN n.transitions THEN {}
    ELSE IF symbol \notin DOMAIN n.transitions[state] THEN {}
    ELSE n.transitions[state][symbol]

\* The orders a Python set can be iterated in: its enumerations.
Orders(S) ==
    {q \in [1..Cardinality(S) -> S] :
        \A i, j \in 1..Cardinality(S) : i # j => q[i] # q[j]}

\* A loop body that adds the new states to the closure and never to the stack.
RECURSIVE PushNewNoStack(_, _, _)
PushNewNoStack(c, st, moves) ==
    IF moves = <<>> THEN [closure |-> c, stack |-> st]
    ELSE PushNewNoStack(c \cup {Head(moves)}, st, Tail(moves))

\* A loop body that pushes a new state twice.
RECURSIVE PushNewTwice(_, _, _)
PushNewTwice(c, st, moves) ==
    IF moves = <<>> THEN [closure |-> c, stack |-> st]
    ELSE IF Head(moves) \notin c
         THEN PushNewTwice(c \cup {Head(moves)},
                           st \o <<Head(moves), Head(moves)>>, Tail(moves))
         ELSE PushNewTwice(c, st, Tail(moves))

\* Lines 59-62: the loop over epsilon_moves, in the order moves.
RECURSIVE PushNew(_, _, _)
PushNew(c, st, moves) ==
    IF moves = <<>> THEN [closure |-> c, stack |-> st]
    ELSE IF Head(moves) \notin c
         THEN PushNew(c \cup {Head(moves)}, Append(st, Head(moves)), Tail(moves))
         ELSE PushNew(c, st, Tail(moves))

\* Lines 55-62: one turn of the while loop, stack.pop() taking the last entry.
PopOnce(n, c, st, moves) ==
    PushNew(c, SubSeq(st, 1, Len(st) - 1), moves)

\* Lines 51-63 as a function, for the callers of _get_epsilon_closure.  The
\* iteration orders are chosen: ClosureOrderFree shows the result is the same
\* for every order.
RECURSIVE ClosureLoop(_, _, _)
ClosureLoop(n, c, st) ==
    IF st = <<>> THEN c
    ELSE LET moves == CHOOSE o \in Orders(Moves(n, st[Len(st)], Eps)) : TRUE
             next == PopOnce(n, c, st, moves)
         IN  ClosureLoop(n, next.closure, next.stack)

get_epsilon_closure(n, states) ==
    ClosureLoop(n, states, CHOOSE o \in Orders(states) : TRUE)

\* Lines 51-52.
ClosureStart ==
    /\ pc = "start"
    /\ closure' = seeds
    /\ stack' \in Orders(seeds)
    /\ pc' = "loop"
    /\ UNCHANGED <<restVars, seeds, result, mapping, run, first, nfa, minVars, subsetVars>>

\* closure = states, without a copy: what closure.add adds is added to the
\* argument states as well.
StatesOfSharedSet(states, added) == added

\* Line 51: closure = set(states) is a set of its own, so that closure.add
\* (line 61) leaves the argument states as it was.
StatesOfCopiedSet(states, added) == states

\* Lines 54-62.
ClosureStep ==
    /\ pc = "loop"
    /\ stack # <<>>
    /\ \E moves \in Orders(Moves(nfa, stack[Len(stack)], Eps)) :
          LET next == PopOnce(nfa, closure, stack, moves)
          IN  /\ closure' = next.closure
              /\ stack' = next.stack
              /\ seeds' = StatesOfCopiedSet(seeds, next.closure)
    /\ UNCHANGED <<restVars, pc, result, mapping, run, first, nfa, minVars, subsetVars>>

\* Lines 54 and 63: the stack is empty, the closure is returned.
ClosureReturn ==
    /\ pc = "loop"
    /\ stack = <<>>
    /\ result' = closure
    /\ pc' = "done"
    /\ UNCHANGED <<restVars, mapping, run, first, nfa, minVars, closureVars, subsetVars>>

\* A caller that takes the closure of the closure it was returned.
CallOnClosure ==
    /\ pc = "done" /\ run = "first"
    /\ run' = "again"
    /\ first' = [seeds |-> seeds, result |-> result]
    /\ seeds' = result
    /\ closure' = Nothing /\ stack' = Nothing /\ result' = Nothing
    /\ pc' = "start"
    /\ UNCHANGED <<restVars, mapping, nfa, minVars, subsetVars>>

\* The epsilon transitions of the NFAs the closure is taken in: at most this
\* many, between the states of StateNames.
MaxEpsEdges == 3

ClosureStates == NameSet(4)

\* AutomataHandler.create_nfa: the NFA with the given transitions, each edge
\* <<state, symbol, target>>.  _get_epsilon_closure reads the transitions only.
NfaOf(Q, Sigma, edges, initial_state, final_states) ==
    [states |-> Q, input_symbols |-> Sigma,
     transitions |->
        [q \in Q |-> [a \in Sigma \cup {Eps} |->
            {e[3] : e \in {x \in edges : x[1] = q /\ x[2] = a}}]],
     initial_state |-> initial_state, final_states |-> final_states]

ClosureNfas ==
    {NfaOf(ClosureStates, {}, edges, StateNames[1], {}) :
        edges \in EdgeSets(ClosureStates \X {Eps} \X ClosureStates, MaxEpsEdges)}

InitClosure ==
    /\ pc = "start"
    /\ call = "_get_epsilon_closure"
    /\ nfa \in ClosureNfas
    /\ seeds \in SUBSET ClosureStates
    /\ closure = Nothing /\ stack = Nothing
    /\ result = Nothing /\ mapping = Nothing
    /\ run = "first" /\ first = Nothing
    /\ NoMin /\ NoSubset /\ NoRest

NextClosure == ClosureStart \/ ClosureStep \/ ClosureReturn \/ CallOnClosure

SpecClosure == InitClosure /\ [][NextClosure]_vars

\* A set of states no epsilon transition leaves.
EpsClosed(n, T) == \A q \in T : Moves(n, q, Eps) \subseteq T

\* The result of _get_epsilon_closure does not depend on the order in which
\* Python iterates over the sets.
ClosureOrderFree ==
    pc = "done" => result = get_epsilon_closure(nfa, seeds)

\* C9: _get_epsilon_closure returns the states reachable from the seed states by
\* zero or more epsilon transitions: it holds the seeds, no epsilon transition
\* leaves it, and it is inside every set of states with these two properties.
C9_ClosureIsReachable ==
    pc = "done" =>
        /\ seeds \subseteq result
        /\ EpsClosed(nfa, result)
        /\ \A T \in SUBSET nfa.states :
              (seeds \subseteq T /\ EpsClosed(nfa, T)) => result \subseteq T
        /\ result = get_epsilon_closure(nfa, seeds)

\* C9 happens: the closure holds a state two epsilon transitions away from the
\* seeds and not one, and leaves a state out.
C9_Witness ==
    /\ pc = "done" /\ run = "first"
    /\ seeds # {}
    /\ \E q \in result \ seeds : \A s \in seeds : q \notin Moves(nfa, s, Eps)
    /\ result # nfa.states

\* C10: the closure of a closure is that closure.
C10_ClosureIdempotent ==
    (pc = "done" /\ run = "again") =>
        /\ seeds = first.result
        /\ result = first.result

\* C10 happens: the second call returned, on a closure that is larger than the
\* seeds it was taken of.
C10_Witness ==
    /\ pc = "done" /\ run = "again"
    /\ first.result # first.seeds
    /\ \E q \in first.result \ first.seeds :
          \A s \in first.seeds : q \notin Moves(nfa, s, Eps)

(***************************************************************************)
(* nfa_to_dfa                                                              *)
(***************************************************************************)

\* A composite state that is final only when all its NFA states are.
IsFinalCompositeAll(n, composite) ==
    composite # {} /\ composite \subseteq n.final_states

\* A composite state that is also final when it holds no NFA state at all.
IsFinalCompositeOrDead(n, composite) ==
    composite = {} \/ composite \cap n.final_states # {}

\* Line 91: a composite state is final when it holds a final NFA state.
IsFinalComposite(n, composite) == composite \cap n.final_states # {}

\* Lines 101-108: the composite state a symbol leads to.
NextComposite(n, current, symbol) ==
    get_epsilon_closure(n, UNION {Moves(n, nfa_state, symbol) : nfa_state \in current})

\* Lines 96-121: the loop over the sorted symbols for one composite state.
\* acc holds dfa_states, unprocessed_states, mapping and the transition dict
\* of the composite state as they stand.
RECURSIVE SymbolLoop(_, _, _, _)
SymbolLoop(n, current, symbols, acc) ==
    IF symbols = <<>> THEN acc
    ELSE IF Head(symbols) = Eps THEN SymbolLoop(n, current, Tail(symbols), acc)
    ELSE LET next == NextComposite(n, current, Head(symbols))
             row == [a \in DOMAIN acc.row \cup {Head(symbols)} |->
                        IF a = Head(symbols) THEN next ELSE acc.row[a]]
             new == next \notin acc.dfa_states
         IN  SymbolLoop(n, current, Tail(symbols),
                [row |-> row,
                 dfa_states |-> acc.dfa_states \cup {next},
                 unprocessed_states |->
                    IF new THEN Append(acc.unprocessed_states, next)
                    ELSE acc.unprocessed_states,
                 mapping |->
                    IF new
                    THEN [c \in DOMAIN acc.mapping \cup {next} |->
                            IF c = next
                            THEN generate_label(Cardinality(DOMAIN acc.mapping))
                            ELSE acc.mapping[c]]
                    ELSE acc.mapping])

\* Lines 71-84.
SubsetStart ==
    /\ pc = "start"
    /\ LET initial_dfa_state == get_epsilon_closure(nfa, {nfa.initial_state})
       IN  /\ mapping' = [c \in {initial_dfa_state} |-> generate_label(0)]
           /\ unprocessed_states' = <<initial_dfa_state>>
           /\ dfa_states' = {initial_dfa_state}
    /\ dfa_transitions' = <<>>
    /\ dfa_final_states' = {}
    /\ pc' = "loop"
    /\ UNCHANGED <<restVars, result, run, first, nfa, minVars, closureVars>>

\* Lines 87-121: one composite state is taken off the front of the worklist.
\* st holds the locals of nfa_to_dfa.
ProcessComposite(n, st) ==
    LET current == Head(st.unprocessed_states)
        out == SymbolLoop(n, current, SortedList(n.input_symbols),
                  [row |-> <<>>, dfa_states |-> st.dfa_states,
                   unprocessed_states |-> Tail(st.unprocessed_states),
                   mapping |-> st.mapping])
    IN  [dfa_final_states |->
            IF IsFinalComposite(n, current)
            THEN st.dfa_final_states \cup {current} ELSE st.dfa_final_states,
         dfa_transitions |->
            [c \in DOMAIN st.dfa_transitions \cup {current} |->
                IF c = current THEN out.row ELSE st.dfa_transitions[c]],
         dfa_states |-> out.dfa_states,
         unprocessed_states |-> out.unprocessed_states,
         mapping |-> out.mapping]

\* Lines 86-121.
SubsetProcess ==
    /\ pc = "loop"
    /\ unprocessed_states # <<>>
    /\ LET out == ProcessComposite(nfa,
                     [dfa_final_states |-> dfa_final_states,
                      dfa_transitions |-> dfa_transitions,
                      dfa_states |-> dfa_states,
                      unprocessed_states |-> unprocessed_states,
                      mapping |-> mapping])
       IN  /\ dfa_final_states' = out.dfa_final_states
           /\ dfa_transitions' = out.dfa_transitions
           /\ dfa_states' = out.dfa_states
           /\ unprocessed_states' = out.unprocessed_states
           /\ mapping' = out.mapping
    /\ UNCHANGED <<restVars, pc, result, run, first, nfa, minVars, closureVars>>

\* Lines 123-142: the DFA with the labels for states.
LabelledDfa(n, map, transitions, final_states) ==
    [states |-> {map[c] : c \in DOMAIN map},
     input_symbols |-> n.input_symbols \ {Eps},
     transitions |->
        [q \in {map[c] : c \in DOMAIN transitions} |->
            LET state == CHOOSE c \in DOMAIN transitions : map[c] = q
            IN  [a \in DOMAIN transitions[state] |-> map[transitions[state][a]]]],
     initial_state |-> map[get_epsilon_closure(n, {n.initial_state})],
     final_states |-> {map[fs] : fs \in final_states}]

\* Lines 123-144.
SubsetFinish ==
    /\ pc = "loop"
    /\ unprocessed_states = <<>>
    /\ result' = LabelledDfa(nfa, mapping, dfa_transitions, dfa_final_states)
    /\ pc' = "done"
    /\ UNCHANGED <<restVars, mapping, run, first, nfa, minVars, closureVars, subsetVars>>

\* The NFAs handed to nfa_to_dfa: every NFA of two states over the alphabet
\* {0, 1}; the NFAs of three states with at most MaxNfaEdges transitions; and
\* the NFAs of two states with at most MaxNfaEdges transitions whose alphabet
\* lists the empty string.
MaxNfaEdges == 2

DenseStates == NameSet(2)

SparseStates == NameSet(3)

DenseNfas ==
    [states : {DenseStates}, input_symbols : {Symbols},
     transitions : [DenseStates -> [Symbols \cup {Eps} -> SUBSET DenseStates]],
     initial_state : DenseStates, final_states : SUBSET DenseStates]

SparseNfas(Q, Sigma) ==
    {NfaOf(Q, Sigma, edges, initial_state, final_states) :
        edges \in EdgeSets(Q \X (Symbols \cup {Eps}) \X Q, MaxNfaEdges),
        initial_state \in Q,
        final_states \in SUBSET Q}

NfaInputs ==
    DenseNfas \cup SparseNfas(SparseStates, Symbols)
              \cup SparseNfas(DenseStates, Symbols \cup {Eps})

InitSubset ==
    /\ pc = "start"
    /\ call = "nfa_to_dfa"
    /\ nfa \in NfaInputs
    /\ dfa_states = Nothing /\ dfa_transitions = Nothing
    /\ dfa_final_states = Nothing /\ unprocessed_states = Nothing
    /\ result = Nothing /\ mapping = Nothing
    /\ run = "first" /\ first = Nothing
    /\ NoMin /\ NoClosure /\ NoRest

NextSubset == SubsetStart \/ SubsetProcess \/ SubsetFinish

SpecSubset == InitSubset /\ [][NextSubset]_vars

\* The states an NFA can be in after epsilon transitions only, from S.
RECURSIVE EpsReach(_, _)
EpsReach(n, S) ==
    LET T == S \cup UNION {Moves(n, q, Eps) : q \in S}
    IN  IF T = S THEN S ELSE EpsReach(n, T)

\* The states an NFA can be in after a symbol, from S.
NfaStep(n, S, a) == EpsReach(n, UNION {Moves(n, q, a) : q \in S})

RECURSIVE NfaRun(_, _, _)
NfaRun(n, S, w) ==
    IF w = <<>> THEN S ELSE NfaRun(n, NfaStep(n, S, Head(w)), Tail(w))

NfaAccepts(n, w) ==
    NfaRun(n, EpsReach(n, {n.initial_state}), w) \cap n.final_states # {}

\* The pairs (states of the NFA, state of the DFA) after the same word, for
\* every word over the symbols of Sigma.
RECURSIVE NfaDfaPairs(_, _, _, _)
NfaDfaPairs(n, d, Sigma, seen) ==
    LET more == {<<NfaStep(n, sq[1], a), DfaStep(d, sq[2], a)>> :
                    sq \in seen, a \in Sigma}
    IN  IF more \subseteq seen THEN seen ELSE NfaDfaPairs(n, d, Sigma, seen \cup more)

\* C1: the DFA nfa_to_dfa returns accepts a word over the alphabet without
\* epsilon exactly when the NFA accepts it.
C1_SameLanguage ==
    pc = "done" =>
        LET Sigma == nfa.input_symbols \ {Eps}
        IN  /\ \A w \in Words(Sigma) : NfaAccepts(nfa, w) <=> DfaAccepts(result, w)
            /\ \A sq \in NfaDfaPairs(nfa, result, Sigma,
                            {<<EpsReach(nfa, {nfa.initial_state}), result.initial_state>>}) :
                  sq[1] \cap nfa.final_states # {}
                      <=> (sq[2] # None /\ sq[2] \in result.final_states)

\* C1 happens: an NFA with an epsilon transition and a symbol with two targets
\* was converted, to a DFA that accepts a word of two symbols and rejects one.
C1_Witness ==
    /\ pc = "done"
    /\ \E q \in nfa.states : Moves(nfa, q, Eps) # {}
    /\ \E q \in nfa.states, a \in Symbols : Cardinality(Moves(nfa, q, a)) > 1
    /\ \E w \in Words(Symbols) : Len(w) = 2 /\ DfaAccepts(result, w)
    /\ \E w \in Words(Symbols) : Len(w) = 2 /\ ~DfaAccepts(result, w)


(***************************************************************************)
(* The three functions of the engine, on inputs that include automata of   *)
(* more than 26 states                                                     *)
(***************************************************************************)

\* The chain automaton of n states "1" .. "n": "0" leads from each state to
\* the next, "1" is the initial state and "n" the only final state.  No two of
\* its states are equivalent, and the subset construction finds n + 1
\* composite states for it.
MaxChain == 28

ChainNames(n) == {IntStr(i) : i \in 1..n}

ChainEdges(n) == {<<IntStr(i), <<48>>, IntStr(i + 1)>> : i \in 1..(n - 1)}

ChainDfas ==
    {DfaOf(ChainNames(n), {<<48>>}, ChainEdges(n), IntStr(1), {IntStr(n)}) :
        n \in 1..MaxChain}

ChainNfas ==
    {NfaOf(ChainNames(n), {<<48>>}, ChainEdges(n), IntStr(1), {IntStr(n)}) :
        n \in 1..MaxChain}

\* The DFAs of at most two states, the DFAs of four states with at most
\* MaxDfaEdges transitions, and the chains.
EngineDfas ==
    {d \in DenseDfas : Cardinality(d.states) <= 2} \cup SparseDfas \cup ChainDfas

\* The NFAs with at most MaxNfaEdges transitions, and the chains.
EngineNfas ==
    SparseNfas(SparseStates, Symbols) \cup SparseNfas(DenseStates, Symbols \cup {Eps})
        \cup ChainNfas

\* One call of one of the three functions.
InitEngine ==
    \/ MinInit(EngineDfas)
    \/ InitClosure
    \/ /\ pc = "start"
       /\ call = "nfa_to_dfa"
       /\ nfa \in EngineNfas
       /\ result = Nothing /\ mapping = Nothing
       /\ run = "first" /\ first = Nothing
       /\ NoMin /\ NoClosure /\ NoSubset /\ NoRest

NextEngine ==
    \/ call = "minimize_dfa_with_steps" /\ (MinStart \/ Round \/ Build)
    \/ call = "_get_epsilon_closure" /\ (ClosureStart \/ ClosureStep \/ ClosureReturn)
    \/ call = "nfa_to_dfa" /\ (SubsetStart \/ SubsetProcess \/ SubsetFinish)

SpecEngine == InitEngine /\ [][NextEngine]_vars

\* The indices _generate_label is tried on.
MaxLabels == 60

\* C11: the mapping nfa_to_dfa and minimize_dfa_with_steps return is a
\* bijection from the composite states (the state sets found, the groups of
\* the final partition) onto the states of the returned DFA, and no label of
\* the mapping is the label of an index that was not used, beyond 26 as well.
C11_MappingBijection ==
    (pc = "done" /\ call \in {"nfa_to_dfa", "minimize_dfa_with_steps"}) =>
        /\ DOMAIN mapping =
              IF call = "nfa_to_dfa" THEN dfa_states ELSE Groups(partitions)
        /\ \A c1, c2 \in DOMAIN mapping : mapping[c1] = mapping[c2] => c1 = c2
        /\ {mapping[c] : c \in DOMAIN mapping} = result.states
        /\ \A c \in DOMAIN mapping, j \in 0..MaxLabels :
              generate_label(j) = mapping[c] => j < Cardinality(DOMAIN mapping)

\* C11 happens: a call returned a DFA of more than 26 states, one of them
\* labelled "A1".
C11_Witness ==
    /\ pc = "done"
    /\ call \in {"nfa_to_dfa", "minimize_dfa_with_steps"}
    /\ Cardinality(DOMAIN mapping) > 26
    /\ <<65, 49>> \in result.states


\* C12: the initial state of the minimized DFA is the label "A", the label of
\* the group of the final partition that holds the initial state of the input;
\* a state is final exactly when its group holds a final state of the input.
C12_InitialAndFinal ==
    (pc = "done" /\ call = "minimize_dfa_with_steps") =>
        /\ result.initial_state = <<65>>
        /\ \E p \in Groups(partitions) :
              dfa.initial_state \in p /\ mapping[p] = <<65>>
        /\ \A p \in Groups(partitions) :
              mapping[p] \in result.final_states <=> p \cap dfa.final_states # {}

\* C12 happens: the group of the initial state is not the first group of the
\* final partition, it holds two states, and the result has a final and a
\* non-final state.
C12_Witness ==
    /\ pc = "done" /\ call = "minimize_dfa_with_steps"
    /\ dfa.initial_state \notin partitions[1]
    /\ \E p \in Groups(partitions) : dfa.initial_state \in p /\ Cardinality(p) > 1
    /\ result.final_states # {}
    /\ result.final_states # result.states


\* The automaton a call of nfa_to_dfa or minimize_dfa_with_steps was given.
InputAutomaton == IF call = "nfa_to_dfa" THEN nfa ELSE dfa

\* C13: when the input automaton has no final state, the DFA nfa_to_dfa
\* returns and the DFA minimize_dfa_with_steps returns have none either, and
\* reject the empty word and every other word.
C13_NoFinalNoWord ==
    (pc = "done" /\ call \in {"nfa_to_dfa", "minimize_dfa_with_steps"}) =>
        (InputAutomaton.final_states = {} =>
            /\ result.final_states = {}
            /\ \A w \in Words(result.input_symbols) : ~DfaAccepts(result, w))

\* C13 happens: an automaton without final states, of one state and no
\* transition, went through one of the two functions.
C13_Witness ==
    /\ pc = "done" /\ call \in {"nfa_to_dfa", "minimize_dfa_with_steps"}
    /\ InputAutomaton.final_states = {}
    /\ Cardinality(InputAutomaton.states) = 1
    /\ InputAutomaton.input_symbols = {}


EmptyMarker == <<123, 125>>

\* Lines 291-297: data, a dict of dicts: for the label of every state, the
\* cell (a str) of every symbol.
TableData(d) ==
    [state_label \in {str(state) : state \in d.states} |->
        LET state == CHOOSE x \in d.states : str(x) = state_label
        IN  [symbol \in d.input_symbols |->
                LET target == Get(d.transitions[state], symbol)
                IN  IF target = None THEN EmptyMarker ELSE str(target)]]

\* Line 299: pd.DataFrame.from_dict(data, orient='index').  pandas turns the
\* dict of rows into a dict of columns, {column: {row: value}}, and builds the
\* frame from that: its rows are the rows named in some column, so that a row
\* whose dict is empty is named nowhere and is not in the frame.  The order of
\* the rows and columns at this point is replaced at lines 329-334.
FromDict(data) ==
    LET columns == UNION {DOMAIN data[row] : row \in DOMAIN data}
        nested == [col \in columns |->
                     [row \in {r \in DOMAIN data : col \in DOMAIN data[r]} |->
                         data[row][col]]]
        index == UNION {DOMAIN nested[col] : col \in columns}
    IN  [index |-> index, columns |-> columns,
         cell |-> [row \in index |-> [col \in columns |-> nested[col][row]]]]

\* Lines 312-317: the loop over the sorted symbols for the state current.
RECURSIVE VisitSymbols(_, _, _, _)
VisitSymbols(d, current, symbols, acc) ==
    IF symbols = <<>> THEN acc
    ELSE LET target == Get(d.transitions[current], Head(symbols))
         IN  IF target # None /\ target \notin acc.visited
             THEN VisitSymbols(d, current, Tail(symbols),
                     [visited |-> acc.visited \cup {target},
                      queue |-> Append(acc.queue, target),
                      bfs_order |-> Append(acc.bfs_order, target)])
             ELSE VisitSymbols(d, current, Tail(symbols), acc)

\* Lines 291-308.
TableStart ==
    /\ pc = "start"
    /\ df' = FromDict(TableData(dfa))
    /\ visited' = {dfa.initial_state}
    /\ queue' = <<dfa.initial_state>>
    /\ bfs_order' = <<dfa.initial_state>>
    /\ pc' = "loop"
    /\ UNCHANGED <<call, appVars, resolveVars, langVars, result, mapping, run, first, nfa, minVars, closureVars,
                   subsetVars>>

\* Lines 310-317: one state is taken off the front of the queue.
TableVisit ==
    /\ pc = "loop"
    /\ queue # <<>>
    /\ LET out == VisitSymbols(dfa, Head(queue), SortedList(dfa.input_symbols),
                     [visited |-> visited, queue |-> Tail(queue),
                      bfs_order |-> bfs_order])
       IN  /\ visited' = out.visited
           /\ queue' = out.queue
           /\ bfs_order' = out.bfs_order
    /\ UNCHANGED <<call, appVars, resolveVars, langVars, df, pc, result, mapping, run, first, nfa, minVars,
                   closureVars, subsetVars>>

\* Lines 319-336: the rows in their final order, the columns sorted.
TableFinish ==
    /\ pc = "loop"
    /\ queue = <<>>
    /\ LET unreachable == SortedList({str(s) : s \in dfa.states \ visited})
           final_order_labels ==
              [i \in 1..Len(bfs_order) |-> str(bfs_order[i])] \o unreachable
           valid_labels == SelectSeq(final_order_labels, LAMBDA lbl : lbl \in df.index)
       IN  result' =
              [index |-> valid_labels,
               columns |-> SortedList(df.columns),
               cell |-> [row \in {valid_labels[i] : i \in 1..Len(valid_labels)} |->
                           df.cell[row]]]
    /\ pc' = "done"
    /\ UNCHANGED <<restVars, mapping, run, first, nfa, minVars, closureVars, subsetVars>>

\* One call of get_dfa_table on any DFA of the bounds.
InitTable ==
    /\ pc = "start"
    /\ call = "get_dfa_table"
    /\ dfa \in DfaInputs
    /\ partitions = Nothing /\ steps = Nothing /\ k = 0
    /\ result = Nothing /\ mapping = Nothing
    /\ run = "first" /\ first = Nothing
    /\ nfa = Nothing /\ NoClosure /\ NoSubset /\ NoRest

NextTable == TableStart \/ TableVisit \/ TableFinish

SpecTable == InitTable /\ [][NextTable]_vars

\* The states in breadth-first discovery order: the states found so far, the
\* i-th of them being the next whose transitions are followed, the symbols in
\* sorted order.
RECURSIVE Discover(_, _, _)
Discover(found, targets, j) ==
    IF j > Len(targets) THEN found
    ELSE IF targets[j] = None \/ \E i \in 1..Len(found) : found[i] = targets[j]
         THEN Discover(found, targets, j + 1)
         ELSE Discover(Append(found, targets[j]), targets, j + 1)

RECURSIVE BreadthFirst(_, _, _)
BreadthFirst(d, found, i) ==
    IF i > Len(found) THEN found
    ELSE LET symbols == SortedList(d.input_symbols)
             targets == [j \in 1..Len(symbols) |->
                            Get(d.transitions[found[i]], symbols[j])]
         IN  BreadthFirst(d, Discover(found, targets, 1), i + 1)

\* What C15 says of a finished call of get_dfa_table.
TableAsDescribed ==
    LET reachable == BreadthFirst(dfa, <<dfa.initial_state>>, 1)
        unreachable ==
            SortedList({str(s) : s \in dfa.states} \ {reachable[i] : i \in 1..Len(reachable)})
    IN  /\ result.index = reachable \o unreachable
        /\ \A state \in dfa.states :
              Cardinality({i \in 1..Len(result.index) : result.index[i] = str(state)}) = 1
        /\ Len(result.index) = Cardinality(dfa.states)
        /\ result.columns = SortedList(dfa.input_symbols)
        /\ \A state \in dfa.states, symbol \in dfa.input_symbols :
              result.cell[str(state)][symbol] =
                 IF Get(dfa.transitions[state], symbol) = None THEN EmptyMarker
                 ELSE str(Get(dfa.transitions[state], symbol))

\* C15: the table get_dfa_table returns has every state exactly once as a
\* row, the reachable states in breadth-first discovery order (symbols in
\* sorted order), then the unreachable ones sorted by their string; its
\* columns are the sorted alphabet; a cell is the target, or "{}" for a
\* missing transition.
C15_TableRows ==
    (pc = "done" /\ call = "get_dfa_table") => TableAsDescribed

\* The same, for the DFAs whose alphabet is not empty.
TableOfNonEmptyAlphabet ==
    (pc = "done" /\ call = "get_dfa_table" /\ dfa.input_symbols # {})
        => TableAsDescribed


(***************************************************************************)
(* The functions of AutomataHandler as app.py calls them                   *)
(***************************************************************************)

\* A Python value: its type and what it holds.  An exception that a call
\* raised is the value of type "exception" that holds its name.
Py(type, value) == [type |-> type, value |-> value]

Raised(name) == Py("exception", name)

\* Lines 86-121: the while loop of nfa_to_dfa.
RECURSIVE SubsetLoop(_, _)
SubsetLoop(n, st) ==
    IF st.unprocessed_states = <<>> THEN st
    ELSE SubsetLoop(n, ProcessComposite(n, st))

\* Lines 69-84: the locals of nfa_to_dfa before its loop.
SubsetLocals(initial_dfa_state) ==
    [dfa_final_states |-> {}, dfa_transitions |-> <<>>,
     dfa_states |-> {initial_dfa_state},
     unprocessed_states |-> <<initial_dfa_state>>,
     mapping |-> [c \in {initial_dfa_state} |-> generate_label(0)]]

\* Lines 124-144: the tuple nfa_to_dfa returns from its locals after the loop.
SubsetReturn(n, end) ==
    Py("tuple",
       <<Py("DFA", LabelledDfa(n, end.mapping, end.dfa_transitions,
                               end.dfa_final_states)),
         Py("dict", end.mapping)>>)

\* Lines 65-144: nfa_to_dfa returns the tuple (dfa, mapping).
nfa_to_dfa(n) ==
    SubsetReturn(n,
        SubsetLoop(n, SubsetLocals(get_epsilon_closure(n, {n.initial_state}))))

\* Lines 172-210: the while loop of minimize_dfa_with_steps.  C7 shows that
\* the iteration order of the sets, chosen here, does not show in the result.
RECURSIVE RefineLoop(_, _, _, _)
RefineLoop(d, parts, trace, round) ==
    LET unsorted == CHOOSE u \in Unsorted(d, parts, SortedList(d.input_symbols), 1) : TRUE
        new_partitions == SortByMinStr(unsorted)
        longer == Append(trace, [k |-> round + 1, partitions |-> new_partitions])
    IN  IF LoopStops(new_partitions, parts)
        THEN [partitions |-> parts, steps |-> longer]
        ELSE RefineLoop(d, new_partitions, longer, round + 1)

\* Lines 163-172: the loop is entered with the partition of round 0, the
\* first line of the trace written.
RefineFrom(d, parts) == RefineLoop(d, parts, <<[k |-> 0, partitions |-> parts]>>, 0)

\* Lines 244-283: the tuple returned, from the ordered groups and their labels.
MinimizeReturn(d, end, ordered, map) ==
    Py("tuple",
       <<Py("DFA", BuildDFA(d, end.partitions, SortedList(d.input_symbols), ordered, map,
                            CHOOSE r \in Representatives(DOMAIN map) : TRUE)),
         Py("list", end.steps),
         Py("dict", map)>>)

\* Lines 223-242: the groups ordered and labelled.
MinimizeLabel(d, end, ordered) == MinimizeReturn(d, end, ordered, LabelMapping(ordered))

\* Lines 212-283: what follows the loop.
MinimizeFinish(d, end) == MinimizeLabel(d, end, OrderedPartitions(d, end.partitions))

\* Lines 150-283: minimize_dfa_with_steps returns the tuple
\* (minimized_dfa, steps, mapping).
minimize_dfa_with_steps(d) == MinimizeFinish(d, RefineFrom(d, InitialPartitions(d)))

\* Lines 17-29: create_nfa.
create_nfa(n) == Py("NFA", n)

\* Lines 31-43: create_dfa.  DFA(...) is called without allow_partial, and
\* automata-lib then refuses a DFA that lacks a transition.
create_dfa(d) ==
    IF Missing(d) # {} THEN Raised("MissingSymbolError") ELSE Py("DFA", d)

\* Lines 351-354: dfa_to_regex.  GNFA.from_dfa reads the attributes of a DFA;
\* a value that has none of them, a tuple, makes it raise.  The regex of a DFA
\* is a str, held here as the DFA it is the regex of.
dfa_to_regex(dfa_obj) ==
    IF dfa_obj.type = "DFA" THEN Py("str", [regex_of |-> dfa_obj.value])
    ELSE Raised("AttributeError")

\* The regular expressions typed into the app: "0*", "01", and "(", which is
\* none.
RegexInputs == {"0*", "01", "("}

\* NFA.from_regex of automata-lib: an NFA for the expression, or the error of
\* an expression that does not parse.
from_regex(regex_str) ==
    CASE regex_str = "0*" ->
            Py("NFA", NfaOf(NameSet(1), {<<48>>},
                            {<<StateNames[1], <<48>>, StateNames[1]>>},
                            StateNames[1], NameSet(1)))
      [] regex_str = "01" ->
            Py("NFA", NfaOf(NameSet(3), Symbols,
                            {<<StateNames[1], <<48>>, StateNames[2]>>,
                             <<StateNames[2], <<49>>, StateNames[3]>>},
                            StateNames[1], {StateNames[3]}))
      [] OTHER -> Raised("InvalidRegexError")

\* Lines 338-340: regex_to_nfa.
regex_to_nfa(regex_str) == from_regex(regex_str)

\* Lines 342-349: regex_to_dfa returns what nfa_to_dfa returns.
regex_to_dfa(regex_str) ==
    LET n == from_regex(regex_str)
    IN  IF n.type = "exception" THEN n ELSE nfa_to_dfa(n.value)


(***************************************************************************)
(* app.py: the Automata Studio tab                                         *)
(***************************************************************************)

\* A key st.session_state does not hold; session_state.get gives None for it.
Absent == Py("absent", "")

\* Lines 360-366: the three keys deleted.
Cleared ==
    [automata_result |-> Absent, automata_regex |-> Absent, automata_steps |-> Absent]

\* Lines 408 and 474: "a, b = value", which raises ValueError unless value
\* holds exactly n items.
Unpack(value, n) ==
    IF value.type = "tuple" /\ Len(value.value) = n THEN value
    ELSE Raised("ValueError")

\* A clearing that leaves automata_regex in the session.
ClearResultsKeepsRegex(sess) == [Cleared EXCEPT !.automata_regex = sess.automata_regex]

\* Lines 359-366: the three keys are deleted from the session, before
\* anything is computed.
ClearResults(sess) == Cleared

\* Lines 424-425: the except clause.  Every branch stores after its last call,
\* so that an exception leaves the session as it was cleared.
Failed(sess, exception) == [session |-> sess, error |-> exception.value]

\* Lines 384-385, 415-416, 421-422: a result is stored in automata_result,
\* unless the call raised.
StoreResult(sess, result_obj) ==
    IF result_obj.type = "exception" THEN Failed(sess, result_obj)
    ELSE [session |-> [sess EXCEPT !.automata_result = result_obj], error |-> ""]

\* Lines 392-393, 402-403 and 486-487: a regex is stored in automata_regex
\* of the session as the handler found or left it, unless the call raised.
StoreRegex(sess, result_str) ==
    IF result_str.type = "exception" THEN Failed(sess, result_str)
    ELSE [session |-> [sess EXCEPT !.automata_regex = result_str], error |-> ""]

\* Lines 408-411 and 474-479: the two names unpacked are stored in
\* automata_result and automata_steps, unless the call or the unpacking raised.
StoreMinimized(sess, returned) ==
    IF returned.type = "exception" THEN Failed(sess, returned)
    ELSE [session |-> [sess EXCEPT !.automata_result = returned.value[1],
                                   !.automata_steps = returned.value[2]],
          error |-> ""]

\* Lines 407-408: the DFA made from the input is minimized and the tuple
\* returned is unpacked into two names.
MinimizeCreated(dfa_obj) ==
    IF dfa_obj.type = "exception" THEN dfa_obj
    ELSE Unpack(minimize_dfa_with_steps(dfa_obj.value), 2)

\* Lines 400-401: the regex of the DFA made from the input.
RegexOfCreated(dfa_obj) ==
    IF dfa_obj.type = "exception" THEN dfa_obj ELSE dfa_to_regex(dfa_obj)

\* Lines 356-425: the handler of the Convert button, sess being the session
\* at the click.
ConvertHandler(sess, source_type, target_type, input) ==
    CASE source_type = "NFA" /\ target_type = "DFA" ->
            StoreResult(ClearResults(sess), nfa_to_dfa(create_nfa(input).value))
      [] source_type = "NFA" /\ target_type = "Regex" ->
            StoreRegex(ClearResults(sess),
                       dfa_to_regex(nfa_to_dfa(create_nfa(input).value)))
      [] source_type = "DFA" /\ target_type = "Minimized DFA" ->
            StoreMinimized(ClearResults(sess), MinimizeCreated(create_dfa(input)))
      [] source_type = "DFA" /\ target_type = "Regex" ->
            StoreRegex(ClearResults(sess), RegexOfCreated(create_dfa(input)))
      [] source_type = "Regex" /\ target_type = "NFA" ->
            StoreResult(ClearResults(sess), regex_to_nfa(input))
      [] source_type = "Regex" /\ target_type = "DFA" ->
            StoreResult(ClearResults(sess), regex_to_dfa(input))

\* Lines 437-451: the transition table is drawn when there is a result and it
\* has the attribute transitions.
TableRendered(sess) == sess.automata_result.type \in {"DFA", "NFA"}

\* Lines 464-484: the buttons of "DFA Operations", drawn when the result is an
\* instance of DFA.
ChainedButtons(sess) ==
    IF sess.automata_result.type = "DFA"
    THEN {"Minimize this DFA", "Convert to Regex"} ELSE {}

\* Lines 471-491: the handlers of the two buttons, and a script run in which
\* neither was pressed.  An exception leaves the session as it was.
ChainedHandler(button, sess) ==
    CASE button = "Minimize this DFA" ->
            StoreMinimized(sess, Unpack(minimize_dfa_with_steps(sess.automata_result.value), 2))
      [] button = "Convert to Regex" ->
            StoreRegex(sess, dfa_to_regex(sess.automata_result))
      [] OTHER -> [session |-> sess, error |-> ""]

\* Lines 214-224: the choices of the two select boxes.
SourceTypes == {"NFA", "DFA", "Regex"}

TargetOptions(source_type) ==
    CASE source_type = "NFA" -> {"DFA", "Regex"}
      [] source_type = "DFA" -> {"Regex", "Minimized DFA"}
      [] source_type = "Regex" -> {"NFA", "DFA"}

\* What the user has entered: an NFA or a DFA of at most two states (a DFA,
\* total or partial, over "0" or over no symbol; an NFA with at most
\* MaxAppEdges transitions), or a regular expression.
MaxAppEdges == 1

AppNfas ==
    {NfaOf(DenseStates, Symbols, edges, initial_state, final_states) :
        edges \in EdgeSets(DenseStates \X (Symbols \cup {Eps}) \X DenseStates, MaxAppEdges),
        initial_state \in DenseStates,
        final_states \in SUBSET DenseStates}

AppDfas == UNION {DFAs(NameSet(n), Sigma) : n \in 1..2, Sigma \in {{}, {<<48>>}}}

Inputs(source_type) ==
    CASE source_type = "NFA" -> AppNfas
      [] source_type = "DFA" -> AppDfas
      [] source_type = "Regex" -> RegexInputs

\* A script run in which the Convert button was pressed.
PressConvert ==
    /\ \E source_type \in SourceTypes :
          \E target_type \in TargetOptions(source_type), input \in Inputs(source_type) :
             LET out == ConvertHandler(session, source_type, target_type, input)
             IN  /\ session' = out.session
                 /\ error' = out.error
                 /\ request' = [button |-> "Convert", source_type |-> source_type,
                                target_type |-> target_type, input |-> input]
    /\ UNCHANGED <<call, tableVars, resolveVars, langVars, pc, result, mapping, run, first, nfa, minVars,
                   closureVars, subsetVars>>

\* A script run without the Convert button: one of the buttons drawn by the
\* last run was pressed, or none was.
Rerun ==
    /\ \E button \in {"none"} \cup ChainedButtons(session) :
          LET out == ChainedHandler(button, session)
          IN  /\ session' = out.session
              /\ error' = out.error
              /\ request' = [button |-> button, source_type |-> "",
                             target_type |-> "", input |-> ""]
    /\ UNCHANGED <<call, tableVars, resolveVars, langVars, pc, result, mapping, run, first, nfa, minVars,
                   closureVars, subsetVars>>

\* The app as it starts: nothing stored, nothing pressed.
InitApp ==
    /\ pc = "idle"
    /\ call = "app"
    /\ session = Cleared
    /\ error = ""
    /\ request = [button |-> "none", source_type |-> "", target_type |-> "", input |-> ""]
    /\ result = Nothing /\ mapping = Nothing
    /\ run = "first" /\ first = Nothing
    /\ nfa = Nothing /\ NoMin /\ NoClosure /\ NoSubset /\ NoTable /\ NoResolve
    /\ NoLang

NextApp == PressConvert \/ Rerun

SpecApp == InitApp /\ [][NextApp]_vars

\* C16: a "DFA -> Minimized DFA" request on a valid DFA, by the Convert button
\* or by the button "Minimize this DFA", ends without an error, the minimized
\* DFA in automata_result and the trace in automata_steps.
C16_MinimizeCompletes ==
    /\ (/\ request.button = "Convert"
        /\ request.source_type = "DFA"
        /\ request.target_type = "Minimized DFA"
        /\ Missing(request.input) = {}) =>
            /\ error = ""
            /\ session.automata_result.type = "DFA"
            /\ session.automata_result = minimize_dfa_with_steps(request.input).value[1]
            /\ session.automata_steps = minimize_dfa_with_steps(request.input).value[2]
    /\ request.button = "Minimize this DFA" =>
            /\ error = ""
            /\ session.automata_result.type = "DFA"
            /\ session.automata_steps.type = "list"

\* C17: an "NFA -> Regex" request on a valid NFA ends without an error, the
\* regex of the DFA of the NFA in automata_regex.
C17_NfaToRegexCompletes ==
    (/\ request.button = "Convert"
     /\ request.source_type = "NFA"
     /\ request.target_type = "Regex") =>
        /\ error = ""
        /\ session.automata_regex.type = "str"
        /\ session.automata_regex = dfa_to_regex(nfa_to_dfa(request.input).value[1])

\* C18: after an "NFA -> DFA" or a "Regex -> DFA" request that ended without
\* an error, automata_result is a DFA, the table is drawn and the two buttons
\* of "DFA Operations" are.
C18_ResultIsDfa ==
    (/\ request.button = "Convert"
     /\ request.target_type = "DFA"
     /\ error = "") =>
        /\ session.automata_result.type = "DFA"
        /\ TableRendered(session)
        /\ ChainedButtons(session) = {"Minimize this DFA", "Convert to Regex"}

\* No script run of the app draws the buttons of "DFA Operations".
ChainedNeverDrawn == ChainedButtons(session) = {}

(***************************************************************************)
(* _resolve_model_name of ai_handler.py.  A model name is the sequence of  *)
(* the characters of its "models/" prefix, if it has one, followed by a    *)
(* model id that the function compares as a whole and never looks into.    *)
(***************************************************************************)

ModelsPrefix == <<"m", "o", "d", "e", "l", "s", "/">>

\* name.startswith(prefix)
startswith(name, prefix) ==
    /\ Len(name) >= Len(prefix)
    /\ SubSeq(name, 1, Len(prefix)) = prefix

\* The priority list of the function.
candidates ==
    << <<"gemini-1.5-flash">>,
       <<"gemini-1.5-flash-latest">>,
       <<"gemini-1.5-flash-001">>,
       <<"gemini-flash-latest">>,
       <<"gemini-1.5-pro">>,
       <<"gemini-pro">> >>

DefaultModel == <<"gemini-1.5-flash">>

\* name[7:] of a name that starts with "models/", the name itself otherwise.
Stripped(name) ==
    IF startswith(name, ModelsPrefix)
    THEN SubSeq(name, Len(ModelsPrefix) + 1, Len(name))
    ELSE name

\* What raw_names remembers for a stripped name.
FullNameStripped(name, stripped) == stripped

FullName(name, stripped) == name

\* The loop over the priority list and the fallback after it.
SelectCandidate(names, raw) ==
    LET hits == {i \in 1..Len(candidates) : candidates[i] \in names}
    IN  IF hits = {}
        THEN DefaultModel
        ELSE raw[candidates[CHOOSE i \in hits : \A j \in hits : i <= j]]

\* list(genai.list_models()) has been evaluated: the exception handler
\* answers a failure with the default.
ResolveStart ==
    /\ pc = "start"
    /\ IF available_models.type = "exception"
       THEN /\ result' = DefaultModel
            /\ pc' = "done"
            /\ UNCHANGED <<available_names, raw_names>>
       ELSE /\ available_names' = {}
            /\ raw_names' = <<>>
            /\ pc' = "collect"
            /\ UNCHANGED result
    /\ UNCHANGED <<available_models, scanned, call, tableVars, appVars, langVars,
                   mapping, run, first, nfa, dfa, minVars, closureVars, subsetVars>>

\* One iteration of the loop over the listed models.
ResolveCollect ==
    /\ pc = "collect"
    /\ scanned < Len(available_models.value)
    /\ LET m == available_models.value[scanned + 1]
           stripped == Stripped(m.name)
       IN  IF "generateContent" \in m.supported_generation_methods
           THEN /\ available_names' = available_names \cup {stripped}
                /\ raw_names' = [n \in DOMAIN raw_names \cup {stripped} |->
                                    IF n = stripped
                                    THEN FullName(m.name, stripped)
                                    ELSE raw_names[n]]
           ELSE UNCHANGED <<available_names, raw_names>>
    /\ scanned' = scanned + 1
    /\ UNCHANGED <<pc, result, available_models, call, tableVars, appVars, langVars,
                   mapping, run, first, nfa, dfa, minVars, closureVars, subsetVars>>

\* The loop over the priority list, after the last listed model.
ResolveSelect ==
    /\ pc = "collect"
    /\ scanned = Len(available_models.value)
    /\ result' = SelectCandidate(available_names, raw_names)
    /\ pc' = "done"
    /\ UNCHANGED <<available_models, scanned, available_names, raw_names,
                   call, tableVars, appVars, langVars,
                   mapping, run, first, nfa, dfa, minVars, closureVars, subsetVars>>

MaxModels == 3

ModelIds == {candidates[i] : i \in 1..Len(candidates)} \cup {<<"text-bison-001">>}

\* The names a listing may hold: every id with the prefix, two of them
\* also without it.
ModelNames ==
    {ModelsPrefix \o id : id \in ModelIds}
        \cup {<<"gemini-1.5-flash">>, <<"gemini-pro">>}

Models ==
    [name : ModelNames,
     supported_generation_methods : {{"generateContent"}, {"embedContent"}}]

Listings ==
    {Py("list", l) : l \in UNION {[1..n -> Models] : n \in 0..MaxModels}}
        \cup {Raised("Exception")}

InitResolve ==
    /\ pc = "start"
    /\ call = "_resolve_model_name"
    /\ available_models \in Listings
    /\ scanned = 0
    /\ available_names = Nothing /\ raw_names = Nothing
    /\ dfa = Nothing /\ result = Nothing /\ mapping = Nothing
    /\ run = "first" /\ first = Nothing
    /\ nfa = Nothing /\ NoMin /\ NoClosure /\ NoSubset /\ NoTable /\ NoApp
    /\ NoLang

NextResolve == ResolveStart \/ ResolveCollect \/ ResolveSelect

SpecResolve == InitResolve /\ [][NextResolve]_vars

\* The listed models that can generate content.
Available ==
    IF available_models.type = "exception"
    THEN {}
    ELSE {available_models.value[i].name : i \in
            {j \in 1..Len(available_models.value) :
                "generateContent" \in
                    available_models.value[j].supported_generation_methods}}

\* The names under which a model id is listed among the available models.
ListedAs(id) == {id, ModelsPrefix \o id} \cap Available

\* The places of the priority list whose model is available.
AvailableRanks == {i \in 1..Len(candidates) : ListedAs(candidates[i]) # {}}

FirstRank == CHOOSE i \in AvailableRanks : \A j \in AvailableRanks : i <= j

\* C19: the function returns a name under which the first available model
\* of the priority list is listed, prefix included, whatever the order of
\* the listing; it returns the default when no model of the priority list
\* is available, when nothing is listed and when the listing fails.
C19_ResolvesByPriority ==
    (pc = "done" /\ call = "_resolve_model_name") =>
        IF AvailableRanks = {}
        THEN result = DefaultModel
        ELSE result \in ListedAs(candidates[FirstRank])

\* C19 witness: a model of lower priority is listed before the one that is
\* returned, and the name returned has its prefix.
C19_Witness ==
    /\ pc = "done" /\ call = "_resolve_model_name"
    /\ available_models.type = "list"
    /\ Len(available_models.value) >= 2
    /\ available_models.value[1].name = ModelsPrefix \o <<"gemini-pro">>
    /\ "generateContent" \in available_models.value[1].supported_generation_methods
    /\ result = ModelsPrefix \o <<"gemini-1.5-flash-latest">>

(***************************************************************************)
(* The partitions of the trace of minimize_dfa_with_steps                  *)
(***************************************************************************)

\* A list of groups is a partition of a set of states.
IsPartitionOf(parts, states) ==
    /\ \A i \in 1..Len(parts) : parts[i] # {}
    /\ \A i, j \in 1..Len(parts) : i # j => parts[i] \cap parts[j] = {}
    /\ UNION Groups(parts) = states

\* Every group of new_parts lies inside one group of old_parts.
Refines(new_parts, old_parts) ==
    \A i \in 1..Len(new_parts) :
        \E j \in 1..Len(old_parts) : new_parts[i] \subseteq old_parts[j]

\* C20: every partition of the trace is a partition of the state set, with
\* at most as many groups as states and no group holding both a final and a
\* non-final state; the partition of a round refines the one of the round
\* before and has at least as many groups.
C20_PartitionsRefine ==
    call = "minimize_dfa_with_steps" =>
        \A i \in 1..Len(steps) :
            LET parts == steps[i].partitions
            IN  /\ IsPartitionOf(parts, dfa.states)
                /\ Len(parts) <= Cardinality(dfa.states)
                /\ \A g \in 1..Len(parts) :
                      \/ parts[g] \subseteq dfa.final_states
                      \/ parts[g] \cap dfa.final_states = {}
                /\ i > 1 =>
                      /\ Refines(parts, steps[i - 1].partitions)
                      /\ Len(parts) >= Len(steps[i - 1].partitions)

\* C20 witness: the call is over after a round that split a group, with a
\* group of several states left and both kinds of states in the DFA.
C20_Witness ==
    /\ pc = "done" /\ call = "minimize_dfa_with_steps"
    /\ Len(steps) >= 3
    /\ Len(steps[2].partitions) > Len(steps[1].partitions)
    /\ \E g \in 1..Len(partitions) : Cardinality(partitions[g]) > 1
    /\ dfa.final_states # {} /\ dfa.final_states # dfa.states

(***************************************************************************)
(* Termination of the refinement loop                                      *)
(***************************************************************************)

InitTerminates == MinInit(EngineDfas)

\* The interpreter executes the next statement of a call in progress: weak
\* fairness of Next, WF_vars(Next), with the states in which Next is enabled
\* written out as the states in which the call has not returned.
Fairness == []<>(pc = "done") \/ []<><<Next>>_vars

SpecTerminates == InitTerminates /\ [][Next]_vars /\ Fairness

\* The loop has stopped within the bound, the last two entries of the trace
\* being the same list of groups.
StoppedInTime ==
    /\ pc \in {"build", "done"}
    /\ k <= Cardinality(dfa.states) + 1
    /\ Len(steps) = k + 1
    /\ k >= 1
    /\ steps[Len(steps)].partitions = steps[Len(steps) - 1].partitions

\* C21: the refinement loop stops, after at most |states| + 1 rounds that
\* follow round 0, and the last two entries of the trace then record the
\* same partition.
C21_LoopTerminates == <>StoppedInTime

\* C21 witness: the call has returned, after as many rounds as the DFA, of
\* several states, has states.
C21_Witness ==
    /\ StoppedInTime
    /\ pc = "done"
    /\ Cardinality(dfa.states) >= 2
    /\ k = Cardinality(dfa.states)

(***************************************************************************)
(* The groups of the final partition                                       *)
(***************************************************************************)

\* Two states agree on a symbol: neither has a transition on it, or both
\* have one and the targets are in the same group.
AgreeOn(d, parts, s, t, a) ==
    LET to_s == Get(d.transitions[s], a)
        to_t == Get(d.transitions[t], a)
    IN  \/ to_s = None /\ to_t = None
        \/ /\ to_s # None /\ to_t # None
           /\ GetPartition(parts, to_s) # NoPartition
           /\ GetPartition(parts, to_s) = GetPartition(parts, to_t)

\* C22: in the final partition the members of a group agree on every symbol,
\* and the minimized DFA returned is the one every choice of representatives
\* gives.
C22_MembersAgree ==
    /\ (call = "minimize_dfa_with_steps" /\ pc \in {"build", "done"}) =>
          \A g \in 1..Len(partitions) : \A s, t \in partitions[g] :
              \A a \in dfa.input_symbols : AgreeOn(dfa, partitions, s, t, a)
    /\ (call = "minimize_dfa_with_steps" /\ pc = "done") =>
          \A rep \in Representatives(DOMAIN mapping) :
              result = BuildDFA(dfa, partitions, SortedList(dfa.input_symbols),
                                OrderedPartitions(dfa, partitions), mapping, rep)

\* C22 witness: the call has returned a DFA with a transition out of a group
\* of several states, two of which go to different states on that symbol.
C22_Witness ==
    /\ call = "minimize_dfa_with_steps" /\ pc = "done"
    /\ \E g \in 1..Len(partitions) : \E s, t \in partitions[g] :
          \E a \in dfa.input_symbols :
              /\ s # t
              /\ Get(dfa.transitions[s], a) # None
              /\ Get(dfa.transitions[t], a) # None
              /\ Get(dfa.transitions[s], a) # Get(dfa.transitions[t], a)
    /\ \E g \in 1..Len(partitions) : \E s, t \in partitions[g] :
          \E a \in dfa.input_symbols :
              s # t /\ Get(dfa.transitions[s], a) = None

(***************************************************************************)
(* The two worklist loops                                                  *)
(***************************************************************************)

\* One call of _get_epsilon_closure, or one call of nfa_to_dfa on an NFA of
\* NfaInputs or on a chain.
InitWorklists ==
    \/ /\ pc = "start"
       /\ call = "_get_epsilon_closure"
       /\ nfa \in ClosureNfas
       /\ seeds \in SUBSET ClosureStates
       /\ closure = {} /\ stack = <<>>
       /\ result = Nothing /\ mapping = Nothing
       /\ run = "first" /\ first = Nothing
       /\ NoMin /\ NoSubset /\ NoRest
    \/ InitSubset
    \/ /\ pc = "start"
       /\ call = "nfa_to_dfa"
       /\ nfa \in ChainNfas
       /\ result = Nothing /\ mapping = Nothing
       /\ run = "first" /\ first = Nothing
       /\ NoMin /\ NoClosure /\ NoSubset /\ NoRest

NextWorklists ==
    \/ call = "_get_epsilon_closure" /\ (ClosureStart \/ ClosureStep \/ ClosureReturn)
    \/ call = "nfa_to_dfa" /\ (SubsetStart \/ SubsetProcess \/ SubsetFinish)

\* Weak fairness of NextWorklists, the states in which it is enabled written
\* out: the interpreter executes the next statement of a call in progress.
FairWorklists == []<>(pc = "done") \/ []<><<NextWorklists>>_vars

SpecWorklists == InitWorklists /\ [][NextWorklists]_vars /\ FairWorklists

\* The entries of a list, and a list without a repeated entry.
Entries(list) == {list[i] : i \in 1..Len(list)}

NoRepeat(list) == \A i, j \in 1..Len(list) : list[i] = list[j] => i = j

\* 2 to the power n.
RECURSIVE Pow2(_)
Pow2(n) == IF n = 0 THEN 1 ELSE 2 * Pow2(n - 1)

\* The states of a DFA that its transitions reach from the states of S.
RECURSIVE DfaReach(_, _)
DfaReach(d, S) ==
    LET T == S \cup ({Get(d.transitions[q], a) : q \in S, a \in d.input_symbols} \ {None})
    IN  IF T = S THEN S ELSE DfaReach(d, T)

\* What is on a worklist is waiting there once, and is known.
WorklistsSound ==
    /\ (call = "_get_epsilon_closure" /\ pc = "loop") =>
          /\ NoRepeat(stack)
          /\ Entries(stack) \subseteq closure
    /\ (call = "nfa_to_dfa" /\ pc \in {"loop", "done"}) =>
          /\ NoRepeat(unprocessed_states)
          /\ Entries(unprocessed_states) \cap DOMAIN dfa_transitions = {}
          /\ Entries(unprocessed_states) \cup DOMAIN dfa_transitions = dfa_states
    /\ (call = "nfa_to_dfa" /\ pc = "done") =>
          /\ Cardinality(result.states) <= Pow2(Cardinality(nfa.states))
          /\ DfaReach(result, {result.initial_state}) = result.states

\* A turn of a loop puts on the worklist only what was never there, and
\* processes what was not processed.
WorklistTurn ==
    /\ (call = "_get_epsilon_closure" /\ pc = "loop" /\ pc' = "loop") =>
          LET pushed == SubSeq(stack', Len(stack), Len(stack'))
          IN  /\ SubSeq(stack', 1, Len(stack) - 1) = SubSeq(stack, 1, Len(stack) - 1)
              /\ Entries(pushed) \cap closure = {}
              /\ closure' = closure \cup Entries(pushed)
    /\ (call = "nfa_to_dfa" /\ pc = "loop" /\ pc' = "loop") =>
          LET current == Head(unprocessed_states)
              enqueued == SubSeq(unprocessed_states', Len(unprocessed_states),
                                 Len(unprocessed_states'))
          IN  /\ current \notin DOMAIN dfa_transitions
              /\ DOMAIN dfa_transitions' = DOMAIN dfa_transitions \cup {current}
              /\ Entries(enqueued) \cap dfa_states = {}
              /\ dfa_states' = dfa_states \cup Entries(enqueued)

\* C23: both worklist loops come to an end; a state is pushed on the stack of
\* _get_epsilon_closure at most once; a composite state is put on the
\* worklist of nfa_to_dfa once and processed once; the DFA has at most
\* 2^|Q| states, each reachable from its initial state.
C23_WorklistsTerminate ==
    /\ []WorklistsSound
    /\ [][WorklistTurn]_vars
    /\ <>(pc = "done")

\* C23 witness: nfa_to_dfa has returned a DFA of 2^|Q| states for an NFA
\* with an epsilon transition.
C23_Witness ==
    /\ call = "nfa_to_dfa" /\ pc = "done"
    /\ Cardinality(nfa.states) >= 2
    /\ Cardinality(result.states) = Pow2(Cardinality(nfa.states))
    /\ \E q \in nfa.states : Moves(nfa, q, Eps) # {}

(***************************************************************************)
(* The labels of nfa_to_dfa                                                *)
(***************************************************************************)

\* The symbols of Sigma in ascending order.
Ascending(Sigma) ==
    CHOOSE q \in Orders(Sigma) :
        \A i, j \in 1..Len(q) : i < j => StrLess(q[i], q[j])

\* The list found, with the sets of states the NFA can be in one symbol of
\* syms after the set current appended in the order of syms, each once.
RECURSIVE VisitComposite(_, _, _, _)
VisitComposite(n, current, syms, found) ==
    IF syms = <<>> THEN found
    ELSE LET next == NfaStep(n, current, Head(syms))
         IN  VisitComposite(n, current, Tail(syms),
                IF next \in Entries(found) THEN found ELSE Append(found, next))

\* The sets of states the NFA can be in, in first-in-first-out discovery
\* order from the i-th entry of found on.
RECURSIVE CompositeOrder(_, _, _)
CompositeOrder(n, found, i) ==
    IF i > Len(found) THEN found
    ELSE CompositeOrder(n,
            VisitComposite(n, found[i], Ascending(n.input_symbols \ {Eps}), found),
            i + 1)

\* C24: the i-th composite state in discovery order, counted from 0 at the
\* epsilon closure of the initial state, is labelled _generate_label(i), and
\* the DFA and the mapping returned are the ones this order gives: they
\* depend on the NFA only.
C24_DiscoveryOrder ==
    (call = "nfa_to_dfa" /\ pc = "done") =>
        LET order == CompositeOrder(nfa, <<EpsReach(nfa, {nfa.initial_state})>>, 1)
            label(i) == generate_label(i - 1)
            place(c) == CHOOSE i \in 1..Len(order) : order[i] = c
        IN  /\ mapping = [c \in Entries(order) |-> label(place(c))]
            /\ result =
                  [states |-> {label(i) : i \in 1..Len(order)},
                   input_symbols |-> nfa.input_symbols \ {Eps},
                   transitions |->
                      [q \in {label(i) : i \in 1..Len(order)} |->
                          [a \in nfa.input_symbols \ {Eps} |->
                              label(place(NfaStep(nfa,
                                  order[CHOOSE i \in 1..Len(order) : label(i) = q], a)))]],
                   initial_state |-> label(1),
                   final_states |->
                      {label(i) : i \in {j \in 1..Len(order) :
                                            order[j] \cap nfa.final_states # {}}}]

\* C24 witness: one composite state led to two new ones, on "0" and on "1",
\* the first labelled before the second, and both were processed.
C24_Witness ==
    /\ call = "nfa_to_dfa" /\ pc = "done"
    /\ nfa.input_symbols \ {Eps} = Symbols
    /\ Cardinality(result.states) >= 4
    /\ result.transitions[generate_label(0)][<<48>>] = generate_label(1)
    /\ result.transitions[generate_label(0)][<<49>>] = generate_label(2)

(***************************************************************************)
(* The DFA of nfa_to_dfa is total                                          *)
(***************************************************************************)

\* C25: the alphabet of the DFA returned is the alphabet of the NFA without
\* the empty string; every state has a transition, to a state, for exactly
\* the symbols of this alphabet; and a composite state without a successor
\* on a symbol leads to the empty composite state, which has a label, is not
\* final and leads to itself on every symbol.
C25_TotalWithDeadState ==
    (call = "nfa_to_dfa" /\ pc = "done") =>
        /\ result.input_symbols = nfa.input_symbols \ {Eps}
        /\ Eps \notin result.input_symbols
        /\ DOMAIN result.transitions = result.states
        /\ \A q \in result.states :
              /\ DOMAIN result.transitions[q] = result.input_symbols
              /\ \A a \in result.input_symbols : result.transitions[q][a] \in result.states
        /\ \A c \in DOMAIN mapping : \A a \in result.input_symbols :
              NfaStep(nfa, c, a) = {} =>
                  /\ {} \in DOMAIN mapping
                  /\ result.transitions[mapping[c]][a] = mapping[{}]
        /\ {} \in DOMAIN mapping =>
              /\ mapping[{}] \in result.states \ result.final_states
              /\ \A a \in result.input_symbols :
                    result.transitions[mapping[{}]][a] = mapping[{}]

\* C25 witness: a DFA over both symbols was returned in which the empty
\* composite state, not the initial one, is reached from a state that has a
\* successor of its own on the other symbol.
C25_Witness ==
    /\ call = "nfa_to_dfa" /\ pc = "done"
    /\ result.input_symbols = Symbols
    /\ Eps \in nfa.input_symbols
    /\ {} \in DOMAIN mapping
    /\ \E c \in DOMAIN mapping :
          /\ c # {}
          /\ result.transitions[mapping[c]][<<48>>] = mapping[{}]
          /\ result.transitions[mapping[c]][<<49>>] # mapping[{}]

\* ---------------------------------------------------------------------------
\* The Convert button and the results of earlier runs.

\* What a click leaves in a session that held nothing.
ProducedBy(click) ==
    ConvertHandler(Cleared, click.source_type, click.target_type, click.input).session

SessionKeys == {"automata_result", "automata_regex", "automata_steps"}

\* C26: after a click on Convert, each of automata_result, automata_regex and
\* automata_steps is absent or holds the value this click produced, whatever
\* the session held before and whether or not the conversion raised.
C26_ConvertLeavesNothingStale ==
    [][request'.button = "Convert" =>
          \A key \in SessionKeys :
             \/ session'[key] = Absent
             \/ session'[key] = ProducedBy(request')[key]]_vars

\* C26 witness: a click on Convert has raised and the three keys are absent.
C26_Witness ==
    /\ request.button = "Convert"
    /\ error # ""
    /\ \A key \in SessionKeys : session[key] = Absent

(***************************************************************************)
(* logic.py: the LanguageProcessor, and the functions of main.py that call *)
(* it.  A str is the sequence of its character codes and None is None; a   *)
(* dict is the record of its keys; the text of a reason is a pair, a fixed *)
(* text and the pattern appended to it.                                    *)
(***************************************************************************)

\* ai_handler.py lines 88-118: what analyze_language may return for a
\* description: an error, or the JSON of the model's answer.  The answers of
\* the model name the description they are about: a regular language with the
\* pattern that matches the description's own text, one with a pattern that
\* does not compile, a language that is not regular, and an answer that only
\* has a pattern.
Analyses(description) ==
    { [error |-> "Error with model"],
      [is_regular |-> Py("bool", TRUE), regex |-> description,
       explanation |-> <<82>> \o description],
      [is_regular |-> Py("bool", TRUE), regex |-> description \o <<40>>,
       explanation |-> <<82>> \o description],
      [is_regular |-> Py("bool", FALSE), explanation |-> <<78>> \o description],
      [regex |-> description] }

\* ai_handler.py lines 120-166: what explain_rejection (text) and
\* check_non_regular (dict) may return.
Replies(ready) ==
    IF ~ready
    THEN { [text |-> <<"API Key missing.", <<>>>>, dict |-> [error |-> "API Key missing"]] }
    ELSE { [text |-> <<"Error getting explanation: ", <<>>>>, dict |-> [error |-> "quota"]],
           [text |-> <<"The string is not in the language.", <<>>>>,
            dict |-> [accepted |-> Py("bool", TRUE), reason |-> <<"In the language.", <<>>>>]],
           [text |-> <<"The string is not in the language.", <<>>>>,
            dict |-> [accepted |-> Py("bool", FALSE)]] }

\* The strings tested: "", "0", "1", " " and "0 ".
TestStrings == {<<>>, <<48>>, <<49>>, <<32>>, <<48, 32>>}

\* Lines 12-27, analysis being what analyze_language returns if it is called.
set_language(self, description, analysis) ==
    LET described == [self EXCEPT !.current_description = description]
        analyzed == <<[fn |-> "analyze_language", args |-> <<description>>]>>
    IN  IF ~self.ready
        THEN [self |-> described, returned |-> [error |-> "API Key not set"],
              calls |-> <<>>]
        ELSE IF "error" \in DOMAIN analysis
        THEN [self |-> described, returned |-> analysis, calls |-> analyzed]
        ELSE [self |-> [described EXCEPT
                           !.is_regular = IF "is_regular" \in DOMAIN analysis
                                          THEN analysis.is_regular
                                          ELSE Py("bool", FALSE),
                           !.regex = IF "regex" \in DOMAIN analysis
                                     THEN analysis.regex ELSE None,
                           !.analysis_explanation =
                                IF "explanation" \in DOMAIN analysis
                                THEN analysis.explanation ELSE <<>>],
              returned |-> analysis,
              calls |-> analyzed]

\* A process_string that forgets a pattern that does not compile.
process_stringForgets(self, string, reply) ==
    LET called(fn, first_arg) == [fn |-> fn, args |-> <<first_arg, string>>]
    IN  IF self.current_description \in {None, <<>>}
        THEN [self |-> self, returned |-> [error |-> "No language defined"],
              calls |-> <<>>]
        ELSE IF self.is_regular = Py("bool", TRUE) /\ self.regex \notin {None, <<>>}
        THEN CASE \E i \in 1..Len(self.regex) : self.regex[i] = 40 ->
                    [self |-> [self EXCEPT !.regex = None], returned |-> reply.dict,
                     calls |-> <<called("re.fullmatch", self.regex),
                                 called("check_non_regular", self.current_description)>>]
               [] self.regex = string ->
                    [self |-> self,
                     returned |-> [accepted |-> Py("bool", TRUE),
                                   reason |-> <<"Matches regex pattern: ", self.regex>>],
                     calls |-> <<called("re.fullmatch", self.regex)>>]
               [] OTHER ->
                    [self |-> self,
                     returned |-> [accepted |-> Py("bool", FALSE), reason |-> reply.text],
                     calls |-> <<called("re.fullmatch", self.regex),
                                 called("explain_rejection", self.current_description)>>]
        ELSE [self |-> self, returned |-> reply.dict,
              calls |-> <<called("check_non_regular", self.current_description)>>]

\* Lines 29-54, reply being what the AI handler returns if it is called.  The
\* patterns of the model are digits and "(": re.fullmatch raises re.error on a
\* pattern with "(", and matches any other pattern against its own text only.
process_string(self, string, reply) ==
    LET called(fn, first_arg) == [fn |-> fn, args |-> <<first_arg, string>>]
    IN  IF self.current_description \in {None, <<>>}
        THEN [self |-> self, returned |-> [error |-> "No language defined"],
              calls |-> <<>>]
        ELSE IF self.is_regular = Py("bool", TRUE) /\ self.regex \notin {None, <<>>}
        THEN CASE \E i \in 1..Len(self.regex) : self.regex[i] = 40 ->
                    [self |-> self, returned |-> reply.dict,
                     calls |-> <<called("re.fullmatch", self.regex),
                                 called("check_non_regular", self.current_description)>>]
               [] self.regex = string ->
                    [self |-> self,
                     returned |-> [accepted |-> Py("bool", TRUE),
                                   reason |-> <<"Matches regex pattern: ", self.regex>>],
                     calls |-> <<called("re.fullmatch", self.regex)>>]
               [] OTHER ->
                    [self |-> self,
                     returned |-> [accepted |-> Py("bool", FALSE), reason |-> reply.text],
                     calls |-> <<called("re.fullmatch", self.regex),
                                 called("explain_rejection", self.current_description)>>]
        ELSE [self |-> self, returned |-> reply.dict,
              calls |-> <<called("check_non_regular", self.current_description)>>]

\* main.py lines 50-52 (and app.py line 112): set_language is called with one
\* of the descriptions "", "0" and "1".
SetLanguage ==
    /\ \E description \in {<<>>, <<48>>, <<49>>} :
          \E analysis \in Analyses(description) :
             LET out == set_language(processor, description, analysis)
             IN  /\ processor' = out.self
                 /\ outcome' = out.returned
                 /\ calls' = out.calls
                 /\ invoked' = [name |-> "set_language", arg |-> <<description>>]
    /\ UNCHANGED <<call, tableVars, appVars, resolveVars, pc, result, mapping, run, first,
                   nfa, minVars, closureVars, subsetVars>>

\* app.py lines 151 and 194: process_string is called.
ProcessString ==
    /\ \E string \in TestStrings, reply \in Replies(processor.ready) :
          LET out == process_string(processor, string, reply)
          IN  /\ processor' = out.self
              /\ outcome' = out.returned
              /\ calls' = out.calls
              /\ invoked' = [name |-> "process_string", arg |-> <<string>>]
    /\ UNCHANGED <<call, tableVars, appVars, resolveVars, pc, result, mapping, run, first,
                   nfa, minVars, closureVars, subsetVars>>

\* main.py lines 67-86: test_string.
TestString ==
    /\ \E string \in TestStrings, reply \in Replies(processor.ready) :
          LET out == IF processor.current_description \in {None, <<>>}
                     THEN [self |-> processor,
                           returned |-> [printed |-> "Please define a language first!"],
                           calls |-> <<>>]
                     ELSE process_string(processor, string, reply)
          IN  /\ processor' = out.self
              /\ outcome' = out.returned
              /\ calls' = out.calls
              /\ invoked' = [name |-> "test_string", arg |-> <<string>>]
    /\ UNCHANGED <<call, tableVars, appVars, resolveVars, pc, result, mapping, run, first,
                   nfa, minVars, closureVars, subsetVars>>

\* The number of strings of a batch.
MaxBatch == 2

\* main.py lines 88-107: batch_test, the table being the rows added; replies[i]
\* is what the AI handler returns for the i-th string.
BatchTest ==
    /\ \E n \in 1..MaxBatch :
          \E strings \in [1..n -> TestStrings], replies \in [1..n -> Replies(processor.ready)] :
             LET RECURSIVE strip(_)
                 strip(s) == IF s # <<>> /\ Head(s) = 32 THEN strip(Tail(s))
                             ELSE IF s # <<>> /\ s[Len(s)] = 32
                                  THEN strip(SubSeq(s, 1, Len(s) - 1))
                             ELSE s
                 row(s, result_dict) ==
                     <<s,
                       IF "accepted" \in DOMAIN result_dict
                          /\ result_dict.accepted = Py("bool", TRUE)
                       THEN "ACCEPTED" ELSE "REJECTED",
                       IF "reason" \in DOMAIN result_dict THEN result_dict.reason
                       ELSE <<"", <<>>>> >>
                 RECURSIVE loop(_, _)
                 loop(i, acc) ==
                     IF i > n THEN acc
                     ELSE IF strip(strings[i]) = <<>> THEN loop(i + 1, acc)
                     ELSE LET out == process_string(acc.self, strip(strings[i]), replies[i])
                          IN  loop(i + 1,
                                   [self |-> out.self,
                                    returned |-> [table |-> Append(acc.returned.table,
                                                      row(strip(strings[i]), out.returned))],
                                    calls |-> acc.calls \o out.calls])
                 out == IF processor.current_description \in {None, <<>>}
                        THEN [self |-> processor,
                              returned |-> [printed |-> "Please define a language first!"],
                              calls |-> <<>>]
                        ELSE loop(1, [self |-> processor, returned |-> [table |-> <<>>],
                                      calls |-> <<>>])
             IN  /\ processor' = out.self
                 /\ outcome' = out.returned
                 /\ calls' = out.calls
                 /\ invoked' = [name |-> "batch_test", arg |-> strings]
    /\ UNCHANGED <<call, tableVars, appVars, resolveVars, pc, result, mapping, run, first,
                   nfa, minVars, closureVars, subsetVars>>

\* logic.py lines 5-10 and main.py line 23: the processor as it is made, with
\* or without an API key.
InitLang ==
    /\ pc = "idle"
    /\ call = "language"
    /\ \E ready \in BOOLEAN :
          processor = [ready |-> ready, current_description |-> None,
                       is_regular |-> Py("NoneType", ""), regex |-> None,
                       analysis_explanation |-> None]
    /\ invoked = [name |-> "__init__", arg |-> <<>>]
    /\ outcome = [printed |-> ""]
    /\ calls = <<>>
    /\ result = Nothing /\ mapping = Nothing
    /\ run = "first" /\ first = Nothing
    /\ nfa = Nothing /\ NoMin /\ NoClosure /\ NoSubset /\ NoTable /\ NoApp /\ NoResolve

NextLang == SetLanguage \/ ProcessString \/ TestString \/ BatchTest

SpecLang == InitLang /\ [][NextLang]_vars

\* ---------------------------------------------------------------------------
\* The frame of process_string.

\* C29: process_string changes no field of the processor, whichever branch it
\* takes, called directly or by test_string or batch_test.
C29_ProcessStringChangesNothing ==
    [][invoked'.name \in {"process_string", "test_string", "batch_test"} =>
          processor' = processor]_vars

\* C29 witness: process_string has been called on a pattern that does not
\* compile and has fallen back on check_non_regular; the pattern is kept.
C29_Witness ==
    /\ invoked.name = "process_string"
    /\ Len(calls) = 2
    /\ calls[1].fn = "re.fullmatch"
    /\ calls[2].fn = "check_non_regular"
    /\ processor.regex = processor.current_description \o <<40>>

\* ---------------------------------------------------------------------------
\* The analysis kept and the description kept.

\* The analyses of a description that are no error.
Answered(description) == {a \in Analyses(description) : "error" \notin DOMAIN a}

\* C27: whenever regex is not None, is_regular, regex and analysis_explanation
\* are those an analysis of current_description produces, and the pattern of
\* every re.fullmatch call is the pattern of such an analysis.
C27_AnalysisOfCurrentDescription ==
    /\ processor.regex # None =>
          \E a \in Answered(processor.current_description) :
             processor = set_language(processor, processor.current_description, a).self
    /\ \A i \in 1..Len(calls) :
          calls[i].fn = "re.fullmatch" =>
             \E a \in Answered(processor.current_description) :
                "regex" \in DOMAIN a /\ a.regex = calls[i].args[1]

\* ---------------------------------------------------------------------------
\* The language counts as defined.

\* In this model an analysis that is no error has an explanation that is not
\* null or has none, so that analysis_explanation is None exactly as long as
\* no set_language call has come to its end.
NoneSucceeded == processor.analysis_explanation = None

\* C28: as long as no set_language call has succeeded, process_string returns
\* the error "No language defined" and calls nothing, and test_string and
\* batch_test ask for a language first.
C28_UndefinedUntilSuccess ==
    NoneSucceeded =>
       /\ invoked.name = "process_string" =>
             outcome = [error |-> "No language defined"] /\ calls = <<>>
       /\ invoked.name \in {"test_string", "batch_test"} =>
             outcome = [printed |-> "Please define a language first!"] /\ calls = <<>>

====
